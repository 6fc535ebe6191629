-------------------------- MODULE GovernanceProofs --------------------------
(***************************************************************************)
(* Proofs about the records of the gateway, for any number of callers,     *)
(* events, requests, breaches and clerks: the audit chain, the requests of *)
(* data subjects, the service levels and their breaches, the governance    *)
(* registers, the records of lineage, lifecycle and tickets, and what is   *)
(* known of the AI services in use.                                        *)
(***************************************************************************)
EXTENDS AuditChain, DataSubjects, SloBreaches, GovernanceRegisters, RecordKeeping, AuditExports,
        AssetDiscovery, ListProofs, FiniteSetTheorems, SequenceTheorems, TLAPS

-----------------------------------------------------------------------------
(***************************************************************************)
(* AuditChain, for any events and tenants, any number of attempts and of   *)
(* open transactions, and any bound on failures and days.                  *)
(***************************************************************************)

\* An idle caller has an attempt left, and the attempts it has not made have
\* no transaction.
AttemptsInv ==
    /\ \A e \in Events : caller[e].pc = "idle" => caller[e].attempt < Attempts
    /\ \A e \in Events, k \in 1..Attempts :
          k > caller[e].attempt => txn[<<e, k>>].pc = "none"

\* A transaction that inserted owns a pending row that says what it read; no
\* two of them hold a row of one event.
InsertedInv ==
    /\ \A t \in Txns : txn[t].pc = "inserted" =>
          /\ txn[t].id \in 1..Len(table)
          /\ table[txn[t].id] = NewRow(t)
    /\ \A t, u \in Txns :
          /\ txn[t].pc = "inserted"
          /\ txn[u].pc = "inserted"
          /\ t[1] = u[1]
          => t = u

\* Of the rows of one event all but one were rolled back.
OneRowInv ==
    \A i, j \in 1..Len(table) :
        /\ i # j
        /\ table[i].event = table[j].event
        => table[i].state = "aborted" \/ table[j].state = "aborted"

\* The event of a caller that was answered is committed.
AckedInv ==
    \A e \in Events : caller[e].pc = "acked" =>
        \E i \in 1..Len(table) : table[i].state = "committed" /\ table[i].event = e

Chosen == {"waiting", "locked", "checked", "inserted"}

\* id is no row, or a committed row of the tenant.
LeadsBack(id, tenant) ==
    id # 0 => /\ id \in 1..Len(table)
              /\ table[id].state = "committed"
              /\ table[id].tenant = tenant

\* The row a transaction chose, and the one any row names, lead back.
LinkInv ==
    /\ \A t \in Txns : txn[t].pc \in Chosen => LeadsBack(txn[t].latest, TenantOf[t[1]])
    /\ \A i \in 1..Len(table) :
          /\ LeadsBack(table[i].prev, table[i].tenant)
          /\ table[i].prev < i

\* Two open transactions of a tenant have marked it.
ContendedInv ==
    \A t, u \in Txns :
        /\ t # u
        /\ txn[t].pc \in Open
        /\ txn[u].pc \in Open
        /\ TenantOf[t[1]] = TenantOf[u[1]]
        => TenantOf[t[1]] \in contended

\* While its tenant is not marked, what a transaction chose stays the newest
\* row, and what it inserted comes after every committed row.
NewestInv ==
    \A t \in Txns : TenantOf[t[1]] \notin contended =>
        /\ txn[t].pc \in Chosen => txn[t].latest = LatestEvent(TenantOf[t[1]])
        /\ txn[t].pc = "inserted" => \A i \in RowsOf(TenantOf[t[1]]) : i < txn[t].id

\* Anchors are of days gone by; no transaction of a quiet one's day is open.
AnchorInv ==
    \A a \in anchors :
        /\ a.day < today
        /\ a.quiet => \A t \in Txns : txn[t].pc \in Open => txn[t].day # a.day

ChainInv ==
    /\ TypeOK
    /\ AttemptsInv
    /\ InsertedInv
    /\ OneRowInv
    /\ AckedInv
    /\ LinkInv
    /\ ContendedInv
    /\ NewestInv
    /\ AnchorInv
    /\ UncontendedChainVerifies
    /\ QuietAnchorStaysValid

-----------------------------------------------------------------------------
(***************************************************************************)
(* Facts about the operators.                                              *)
(***************************************************************************)

\* The newest row of a tenant is none, or one of its committed rows.
LEMMA LatestIsRow ==
    ASSUME NEW tenant, LatestEvent(tenant) # 0
    PROVE  LatestEvent(tenant) \in RowsOf(tenant)
BY DEF LatestEvent, MaxId

\* A transaction is an event and a number of an attempt.
LEMMA TxnPair ==
    ASSUME NEW t \in Txns
    PROVE  t[1] \in Events /\ t[2] \in 1..Attempts /\ t = <<t[1], t[2]>>
BY DEF Txns

\* The transactions after one of them begins or inserts.
LEMMA TxnTypes ==
    ASSUME TypeOK, NEW t \in Txns, NEW pc \in Open, NEW on \in 0..MaxDay, NEW id \in Nat
    PROVE  /\ [txn EXCEPT ![t].pc = pc, ![t].day = on]
              \in [Txns -> [pc : Open \cup {"none", "done", "aborted"},
                            latest : Nat, day : 0..MaxDay, id : Nat]]
           /\ [txn EXCEPT ![t].pc = pc, ![t].id = id]
              \in [Txns -> [pc : Open \cup {"none", "done", "aborted"},
                            latest : Nat, day : 0..MaxDay, id : Nat]]
<1> DEFINE T == [pc : Open \cup {"none", "done", "aborted"},
                 latest : Nat, day : 0..MaxDay, id : Nat]
           r == [txn[t] EXCEPT !.pc = pc, !.day = on]
           q == [txn[t] EXCEPT !.pc = pc, !.id = id]
<1>1. txn \in [Txns -> T] /\ txn[t] \in T
  BY DEF TypeOK
<1>2. r \in T /\ q \in T
  BY <1>1
<1>3. /\ [txn EXCEPT ![t].pc = pc, ![t].day = on] = [txn EXCEPT ![t] = r]
      /\ [txn EXCEPT ![t].pc = pc, ![t].id = id] = [txn EXCEPT ![t] = q]
  BY <1>1
<1> QED BY <1>1, <1>2, <1>3

\* The callers after an attempt returned or raised.
LEMMA CallerTypes ==
    ASSUME TypeOK, NEW t \in Txns
    PROVE  /\ Acked(t) \in [Events -> [pc : {"idle", "calling", "acked", "failed"},
                                       attempt : 0..Attempts]]
           /\ Raised(t) \in [Events -> [pc : {"idle", "calling", "acked", "failed"},
                                        attempt : 0..Attempts]]
           /\ \A d \in Events : /\ Acked(t)[d].attempt = caller[d].attempt
                                /\ Raised(t)[d].attempt = caller[d].attempt
                                /\ Acked(t)[d].pc = "idle" => caller[d].pc = "idle"
                                /\ Raised(t)[d].pc = "acked" => caller[d].pc = "acked"
                                /\ Acked(t)[d].pc = "acked" => caller[d].pc = "acked" \/ d = t[1]
                                /\ Raised(t)[d].pc = "idle" => \/ caller[d].pc = "idle"
                                                               \/ caller[d].attempt < Attempts
BY TxnPair, ChainAssumption DEF TypeOK, Acked, Raised, Attached

\* A step that leaves the table alone leaves what is read from it.
LEMMA TableKept ==
    ASSUME table' = table
    PROVE  /\ Committed' = Committed
           /\ \A x : RowsOf(x)' = RowsOf(x)
           /\ \A x : LatestEvent(x)' = LatestEvent(x)
           /\ \A d : DayHashes(d)' = DayHashes(d)
           /\ \A x : VerifyChain(x)' = VerifyChain(x)
           /\ OneRowInv => OneRowInv'
<1>1. Committed' = Committed
  BY DEF Committed
<1>2. \A x : RowsOf(x)' = RowsOf(x)
  BY <1>1 DEF RowsOf
<1>3. \A x : LatestEvent(x)' = LatestEvent(x)
  BY <1>2 DEF LatestEvent
<1>4. \A d : DayHashes(d)' = DayHashes(d)
  BY <1>1 DEF DayHashes
<1>5. \A x : VerifyChain(x)' = VerifyChain(x)
  BY <1>2 DEF VerifyChain
<1>6. OneRowInv => OneRowInv'
  BY DEF OneRowInv
<1> QED BY <1>1, <1>2, <1>3, <1>4, <1>5, <1>6

\* A transaction of which only pc and the chosen row change, and which stays
\* open, disturbs neither the marks of its tenant nor the anchors.
LEMMA OpenMoves ==
    ASSUME ChainInv, NEW t \in Txns, txn[t].pc \in Open,
           table' = table, today' = today, anchors' = anchors, contended' = contended,
           NEW pc, NEW latest,
           txn' = [txn EXCEPT ![t].pc = pc, ![t].latest = latest]
    PROVE  /\ ContendedInv'
           /\ AnchorInv'
           /\ UncontendedChainVerifies'
           /\ QuietAnchorStaysValid'
           /\ OneRowInv'
<1>1. \A u \in Txns : /\ txn'[u].pc \in Open => txn[u].pc \in Open
                      /\ txn'[u].day = txn[u].day
  BY DEF ChainInv, TypeOK
<1>2. ContendedInv'
  BY <1>1 DEF ChainInv, ContendedInv
<1>3. AnchorInv'
  BY <1>1, ZenonT(60) DEF ChainInv, AnchorInv
<1>4. UncontendedChainVerifies'
  BY TableKept DEF ChainInv, UncontendedChainVerifies
<1>5. QuietAnchorStaysValid'
  BY TableKept DEF ChainInv, QuietAnchorStaysValid, VerifyAnchor
<1> QED BY <1>2, <1>3, <1>4, <1>5, TableKept DEF ChainInv

-----------------------------------------------------------------------------
(***************************************************************************)
(* Every step keeps the invariant.                                         *)
(***************************************************************************)

\* The latest row of the chain is read.
LEMMA SelectLatestInv ==
    ASSUME ChainInv, NEW t \in Txns, SelectLatest(t)
    PROVE  ChainInv'
<1> DEFINE id == LatestEvent(TenantOf[t[1]])
<1>0. t[1] \in Events /\ t[2] \in 1..Attempts /\ t = <<t[1], t[2]>>
  BY TxnPair
<1>1. PICK pc \in {"locked", "waiting"} :
         txn' = [txn EXCEPT ![t].latest = id, ![t].pc = pc]
  BY DEF SelectLatest
<1>2. UNCHANGED <<caller, table, today, anchors, contended>>
  BY DEF SelectLatest
<1>3. txn[t].pc = "begun"
  BY DEF SelectLatest
<1>4. LeadsBack(id, TenantOf[t[1]]) /\ id \in Nat
  <2>1. CASE id = 0
    BY <2>1 DEF LeadsBack
  <2>2. CASE id # 0
    BY <2>2, LatestIsRow DEF LeadsBack, RowsOf, Committed
  <2> QED BY <2>1, <2>2
<1>t. \A u \in Txns :
         /\ txn'[u].pc = IF u = t THEN pc ELSE txn[u].pc
         /\ txn'[u].latest = IF u = t THEN id ELSE txn[u].latest
         /\ txn'[u].day = txn[u].day
         /\ txn'[u].id = txn[u].id
  BY <1>1 DEF ChainInv, TypeOK
<1>5. TypeOK'
  BY <1>1, <1>2, <1>4, ZenonT(60) DEF ChainInv, TypeOK, Open
<1>6. AttemptsInv'
  BY <1>0, <1>2, <1>3, <1>t DEF ChainInv, AttemptsInv, Txns
<1>7. InsertedInv'
  BY <1>2, <1>3, <1>t DEF ChainInv, InsertedInv, NewRow
<1>8. AckedInv'
  BY <1>2 DEF ChainInv, AckedInv
<1>9. LinkInv'
  BY <1>2, <1>4, <1>t DEF ChainInv, LinkInv, LeadsBack
<1>10. NewestInv'
  BY <1>2, <1>t, TableKept DEF ChainInv, NewestInv
<1>11. /\ ContendedInv' /\ AnchorInv' /\ UncontendedChainVerifies'
       /\ QuietAnchorStaysValid' /\ OneRowInv'
  <2>1. txn' = [txn EXCEPT ![t].pc = pc, ![t].latest = id]
    BY <1>1 DEF ChainInv, TypeOK
  <2> QED BY <1>2, <1>3, <2>1, OpenMoves DEF Open
<1> QED BY <1>5, <1>6, <1>7, <1>8, <1>9, <1>10, <1>11 DEF ChainInv

\* A transaction goes on without touching the table, or ends before it did,
\* and its caller may be answered.
LEMMA PcMoves ==
    ASSUME ChainInv, NEW t \in Txns, txn[t].pc \in Open,
           NEW pc \in {"locked", "checked", "done", "aborted"},
           pc \in Chosen => txn[t].pc \in Chosen,
           txn' = [txn EXCEPT ![t].pc = pc],
           UNCHANGED <<table, today, anchors, contended>>,
           caller' \in {caller, Acked(t), Raised(t)},
           AckedInv'
    PROVE  ChainInv'
<1>0. t[1] \in Events /\ t[2] \in 1..Attempts /\ t = <<t[1], t[2]>>
  BY TxnPair
<1>c. /\ caller' \in [Events -> [pc : {"idle", "calling", "acked", "failed"},
                                 attempt : 0..Attempts]]
      /\ \A e \in Events : /\ caller'[e].attempt = caller[e].attempt
                           /\ caller'[e].pc = "idle" => caller[e].attempt < Attempts
  <2>1. TypeOK
    BY DEF ChainInv
  <2>2. caller \in [Events -> [pc : {"idle", "calling", "acked", "failed"},
                               attempt : 0..Attempts]]
    BY <2>1 DEF TypeOK
  <2>3. \A e \in Events : caller[e].pc = "idle" => caller[e].attempt < Attempts
    BY DEF ChainInv, AttemptsInv
  <2>4. caller' = caller \/ caller' = Acked(t) \/ caller' = Raised(t)
    OBVIOUS
  <2> QED BY <2>1, <2>2, <2>3, <2>4, CallerTypes
<1>t. \A u \in Txns :
         /\ txn'[u].pc = IF u = t THEN pc ELSE txn[u].pc
         /\ txn'[u].latest = txn[u].latest
         /\ txn'[u].day = txn[u].day
         /\ txn'[u].id = txn[u].id
  BY DEF ChainInv, TypeOK
<1>5. TypeOK'
  BY <1>c, ZenonT(60) DEF ChainInv, TypeOK, Open
<1>6. AttemptsInv'
  BY <1>0, <1>c, <1>t DEF ChainInv, AttemptsInv, Txns, Open
<1>7. InsertedInv'
  BY <1>t DEF ChainInv, InsertedInv, NewRow
<1>9. LinkInv'
  BY <1>t DEF ChainInv, LinkInv, LeadsBack
<1>10. NewestInv'
  BY <1>t, TableKept DEF ChainInv, NewestInv
<1>11. /\ ContendedInv' /\ AnchorInv' /\ UncontendedChainVerifies'
       /\ QuietAnchorStaysValid' /\ OneRowInv'
  <2>1. txn' = [txn EXCEPT ![t].pc = pc, ![t].latest = txn[t].latest]
    BY DEF ChainInv, TypeOK
  <2> QED BY <2>1, OpenMoves, ZenonT(60)
<1> QED BY <1>5, <1>6, <1>7, <1>9, <1>10, <1>11 DEF ChainInv

\* The advisory lock is granted.
LEMMA LockGrantedInv ==
    ASSUME ChainInv, NEW t \in Txns, LockGranted(t)
    PROVE  ChainInv'
<1>1. AckedInv'
  BY DEF ChainInv, AckedInv, LockGranted
<1> QED BY <1>1, PcMoves DEF LockGranted, Open, Chosen

\* The event is looked for among the rows.
LEMMA CheckExistingInv ==
    ASSUME ChainInv, NEW t \in Txns, CheckExisting(t)
    PROVE  ChainInv'
<1>0. t[1] \in Events /\ t[2] \in 1..Attempts /\ t = <<t[1], t[2]>>
  BY TxnPair
<1>1. CASE \E i \in Committed : table[i].event = t[1]
  <2>1. caller' = Acked(t) /\ table' = table
    BY <1>1 DEF CheckExisting
  <2>2. \A d \in Events : caller'[d].pc = "acked" => caller[d].pc = "acked" \/ d = t[1]
    BY <1>0, <2>1, CallerTypes DEF ChainInv
  <2>3. AckedInv'
    BY <1>1, <2>1, <2>2 DEF ChainInv, AckedInv, Committed
  <2>4. /\ txn[t].pc = "locked"
        /\ txn' = [txn EXCEPT ![t].pc = "done"]
        /\ UNCHANGED <<table, today, anchors, contended>>
    BY <1>1 DEF CheckExisting
  <2> QED BY <2>1, <2>3, <2>4, PcMoves DEF Open, Chosen
<1>2. CASE ~ \E i \in Committed : table[i].event = t[1]
  <2>1. AckedInv'
    BY <1>2 DEF ChainInv, AckedInv, CheckExisting
  <2> QED BY <1>2, <2>1, PcMoves DEF CheckExisting, Open, Chosen
<1> QED BY <1>1, <1>2

\* The caller stops waiting for an attempt.
LEMMA TimeoutInv ==
    ASSUME ChainInv, NEW e \in Events, Timeout(e)
    PROVE  ChainInv'
<1>0. /\ caller[e].pc = "calling"
      /\ caller' = Raised(<<e, caller[e].attempt>>)
      /\ UNCHANGED <<txn, table, today, anchors, contended>>
  BY DEF Timeout
<1>c. /\ caller' \in [Events -> [pc : {"idle", "calling", "acked", "failed"},
                                 attempt : 0..Attempts]]
      /\ \A d \in Events : /\ caller'[d].attempt = caller[d].attempt
                           /\ caller'[d].pc = "idle" => caller[d].attempt < Attempts
                           /\ caller'[d].pc = "acked" => caller[d].pc = "acked"
  BY <1>0, ChainAssumption DEF ChainInv, TypeOK, AttemptsInv, Raised, Attached
<1>1. TypeOK'
  BY <1>0, <1>c DEF ChainInv, TypeOK
<1>2. AttemptsInv'
  BY <1>0, <1>c DEF ChainInv, AttemptsInv
<1>3. AckedInv'
  BY <1>0, <1>c DEF ChainInv, AckedInv
<1>4. InsertedInv' /\ LinkInv' /\ ContendedInv' /\ AnchorInv'
  BY <1>0 DEF ChainInv, InsertedInv, NewRow, LinkInv, LeadsBack, ContendedInv, AnchorInv
<1>5. NewestInv'
  BY <1>0, TableKept DEF ChainInv, NewestInv
<1>6. UncontendedChainVerifies' /\ QuietAnchorStaysValid' /\ OneRowInv'
  BY <1>0, TableKept DEF ChainInv, UncontendedChainVerifies,
     QuietAnchorStaysValid, VerifyAnchor
<1> QED BY <1>1, <1>2, <1>3, <1>4, <1>5, <1>6 DEF ChainInv

\* An attempt begins.
LEMMA BeginInv ==
    ASSUME ChainInv, NEW e \in Events, Begin(e)
    PROVE  ChainInv'
<1> DEFINE k == caller[e].attempt + 1
           t == <<e, k>>
<1>0. /\ k \in 1..Attempts
      /\ t \in Txns
      /\ t[1] = e
      /\ caller[e].pc = "idle"
      /\ txn[t].pc = "none"
  <2>1. caller[e].pc = "idle"
    BY DEF Begin
  <2>2. k \in 1..Attempts
    BY <2>1, ChainAssumption DEF ChainInv, TypeOK, AttemptsInv
  <2>3. caller[e].attempt \in 0..Attempts
    BY DEF ChainInv, TypeOK
  <2>4. txn[<<e, k>>].pc = "none"
    BY <2>2, <2>3 DEF ChainInv, AttemptsInv
  <2> QED BY <2>1, <2>2, <2>4 DEF Txns
<1>1. /\ caller' = [caller EXCEPT ![e] = [pc |-> "calling", attempt |-> k]]
      /\ txn' = [txn EXCEPT ![t].pc = "begun", ![t].day = today]
      /\ UNCHANGED <<table, today, anchors>>
  BY DEF Begin
<1>2. /\ contended \subseteq contended'
      /\ contended' \subseteq Tenants
      /\ \A u \in Txns : /\ TenantOf[u[1]] = TenantOf[e]
                         /\ txn[u].pc \in Open
                         => TenantOf[e] \in contended'
  BY DEF Begin, ChainInv, TypeOK, Tenants
<1> HIDE DEF k, t
<1>t. \A u \in Txns :
         /\ txn'[u].pc = IF u = t THEN "begun" ELSE txn[u].pc
         /\ txn'[u].latest = txn[u].latest
         /\ txn'[u].day = IF u = t THEN today ELSE txn[u].day
         /\ txn'[u].id = txn[u].id
  BY <1>0, <1>1 DEF ChainInv, TypeOK
<1>c. \A d \in Events :
         /\ caller'[d].pc = IF d = e THEN "calling" ELSE caller[d].pc
         /\ caller'[d].attempt = IF d = e THEN k ELSE caller[d].attempt
  BY <1>1 DEF ChainInv, TypeOK
<1>3. TypeOK'
  <2>1. caller' \in [Events -> [pc : {"idle", "calling", "acked", "failed"},
                                attempt : 0..Attempts]]
    BY <1>0, <1>1 DEF ChainInv, TypeOK
  <2>2. txn' \in [Txns -> [pc : Open \cup {"none", "done", "aborted"},
                           latest : Nat, day : 0..MaxDay, id : Nat]]
    BY <1>0, <1>1, TxnTypes DEF ChainInv, TypeOK, Open
  <2> QED BY <1>1, <1>2, <2>1, <2>2 DEF ChainInv, TypeOK
<1>4. AttemptsInv'
  <2>1. \A d \in Events, j \in 1..Attempts :
           j > caller'[d].attempt => /\ j > caller[d].attempt
                                     /\ <<d, j>> # t
                                     /\ <<d, j>> \in Txns
    <3>1. caller[e].attempt \in 0..Attempts
      BY DEF ChainInv, TypeOK
    <3> QED BY <1>c, <3>1 DEF Txns, t, k
  <2> QED BY <1>c, <1>t, <2>1 DEF ChainInv, AttemptsInv
<1>5. InsertedInv'
  <2>1. ASSUME NEW u \in Txns, txn'[u].pc = "inserted"
        PROVE  txn[u].pc = "inserted" /\ txn'[u].id = txn[u].id /\ NewRow(u)' = NewRow(u)
    BY <1>t, <2>1 DEF NewRow
  <2> QED BY <1>1, <2>1 DEF ChainInv, InsertedInv
<1>6. AckedInv'
  BY <1>1, <1>c DEF ChainInv, AckedInv
<1>s. \A u \in Txns : txn'[u].pc \in Chosen =>
         txn[u].pc = txn'[u].pc /\ txn'[u].latest = txn[u].latest
  BY <1>t DEF Chosen
<1>7. LinkInv'
  <2>1. \A id, x : LeadsBack(id, x)' = LeadsBack(id, x)
    BY <1>1 DEF LeadsBack
  <2> QED BY <1>1, <1>s, <2>1 DEF ChainInv, LinkInv
<1>8. ContendedInv'
  BY <1>0, <1>2, <1>t DEF ChainInv, ContendedInv
<1>9. NewestInv'
  <2>1. \A u \in Txns : txn'[u].pc = "inserted" =>
           txn[u].pc = "inserted" /\ txn'[u].id = txn[u].id
    BY <1>t
  <2> QED BY <1>1, <1>2, <1>s, <2>1, TableKept DEF ChainInv, NewestInv
<1>10. AnchorInv'
  BY <1>1, <1>t DEF ChainInv, AnchorInv, TypeOK
<1>11. UncontendedChainVerifies' /\ QuietAnchorStaysValid' /\ OneRowInv'
  BY <1>1, <1>2, TableKept DEF ChainInv, UncontendedChainVerifies,
     QuietAnchorStaysValid, VerifyAnchor
<1> QED BY <1>3, <1>4, <1>5, <1>6, <1>7, <1>8, <1>9, <1>10, <1>11 DEF ChainInv

\* A row is inserted.
LEMMA InsertInv ==
    ASSUME ChainInv, NEW t \in Txns, Insert(t)
    PROVE  ChainInv'
<1>0. t[1] \in Events /\ t[2] \in 1..Attempts /\ t = <<t[1], t[2]>>
  BY TxnPair
<1>g. /\ txn[t].pc = "checked"
      /\ \A i \in 1..Len(table) : table[i].event = t[1] => table[i].state # "pending"
      /\ UNCHANGED <<today, anchors, contended>>
  BY DEF Insert
<1>a. CASE \E i \in Committed : table[i].event = t[1]
  <2>1. /\ txn' = [txn EXCEPT ![t].pc = "aborted"]
        /\ caller' = Raised(t)
        /\ table' = table
    BY <1>a DEF Insert
  <2>2. \A d \in Events : caller'[d].pc = "acked" => caller[d].pc = "acked"
    BY <2>1, CallerTypes DEF ChainInv
  <2>3. AckedInv'
    BY <2>1, <2>2 DEF ChainInv, AckedInv
  <2> QED BY <1>g, <2>1, <2>3, PcMoves DEF Open, Chosen
<1>b. CASE ~ \E i \in Committed : table[i].event = t[1]
  <2> DEFINE n == Len(table) + 1
  <2>1. /\ table' = Append(table, NewRow(t))
        /\ txn' = [txn EXCEPT ![t].pc = "inserted", ![t].id = n]
        /\ caller' = caller
    BY <1>b DEF Insert
  <2>r. NewRow(t) \in Row
    BY <1>0 DEF NewRow, Row, ChainInv, TypeOK, Tenants
  <2>2. /\ table \in Seq(Row)
        /\ table' \in Seq(Row)
        /\ Len(table) \in Nat
        /\ Len(table') = n
        /\ table'[n] = NewRow(t)
        /\ \A i \in 1..Len(table) : table'[i] = table[i]
    BY <2>1, <2>r, AppendProperties, LenProperties DEF ChainInv, TypeOK
  <2>t. \A u \in Txns :
           /\ txn'[u].pc = IF u = t THEN "inserted" ELSE txn[u].pc
           /\ txn'[u].latest = txn[u].latest
           /\ txn'[u].day = txn[u].day
           /\ txn'[u].id = IF u = t THEN n ELSE txn[u].id
    BY <2>1 DEF ChainInv, TypeOK
  <2>3. Committed' = Committed
    BY <2>2 DEF Committed, NewRow
  <2>4. \A x : RowsOf(x)' = RowsOf(x)
    BY <2>2, <2>3 DEF RowsOf, Committed
  <2>5. \A x : LatestEvent(x)' = LatestEvent(x)
    BY <2>4 DEF LatestEvent
  <2>6. TypeOK'
    <3>1. txn' \in [Txns -> [pc : Open \cup {"none", "done", "aborted"},
                             latest : Nat, day : 0..MaxDay, id : Nat]]
      <4>1. n \in Nat
        BY <2>2
      <4> HIDE DEF n
      <4>2. TypeOK /\ today \in 0..MaxDay /\ "inserted" \in Open
        BY DEF ChainInv, TypeOK, Open
      <4> QED BY <2>1, <4>1, <4>2, TxnTypes
    <3> QED BY <2>1, <2>2, <1>g, <3>1 DEF ChainInv, TypeOK
  <2>7. AttemptsInv'
    <3>1. ASSUME NEW e \in Events, NEW k \in 1..Attempts, k > caller[e].attempt
          PROVE  txn'[<<e, k>>].pc = "none"
      <4>1. PICK u : u = <<e, k>>
        OBVIOUS
      <4>2. u \in Txns /\ txn[u].pc = "none"
        BY <3>1, <4>1 DEF ChainInv, AttemptsInv, Txns
      <4>3. txn'[u].pc = "none"
        BY <1>g, <2>t, <4>2
      <4> QED BY <4>1, <4>3
    <3> QED BY <2>1, <3>1 DEF ChainInv, AttemptsInv
  <2>8. InsertedInv'
    <3>1. ASSUME NEW u \in Txns, txn'[u].pc = "inserted"
          PROVE  txn'[u].id \in 1..Len(table') /\ table'[txn'[u].id] = NewRow(u)'
      <4>1. NewRow(u)' = NewRow(u)
        BY <2>t DEF NewRow
      <4> QED BY <3>1, <4>1, <2>2, <2>t DEF ChainInv, InsertedInv
    <3>2. \A u \in Txns : txn[u].pc = "inserted" => u[1] # t[1]
      <4>1. ASSUME NEW u \in Txns, txn[u].pc = "inserted"
            PROVE  table[txn[u].id] = NewRow(u) /\ txn[u].id \in 1..Len(table)
        BY <4>1 DEF ChainInv, InsertedInv
      <4>2. \A u \in Txns : NewRow(u).event = u[1] /\ NewRow(u).state = "pending"
        BY DEF NewRow
      <4> QED BY <1>g, <4>1, <4>2
    <3>3. \A u, w \in Txns : /\ txn'[u].pc = "inserted"
                             /\ txn'[w].pc = "inserted"
                             /\ u[1] = w[1]
                             => u = w
      BY <2>t, <3>2 DEF ChainInv, InsertedInv
    <3> QED BY <3>1, <3>3 DEF InsertedInv
  <2>9. OneRowInv'
    <3>1. \A i \in 1..Len(table) : table[i].event = t[1] => table[i].state = "aborted"
      <4>1. \A i \in 1..Len(table) : table[i] \in Row
        BY <2>2
      <4>2. \A i \in 1..Len(table) : table[i].state \in {"pending", "committed", "aborted"}
        BY <4>1 DEF Row
      <4> QED BY <1>g, <1>b, <4>2 DEF Committed
    <3>2. table'[n].event = t[1]
      BY <2>2 DEF NewRow
    <3> QED BY <2>2, <3>1, <3>2 DEF ChainInv, OneRowInv
  <2>10. AckedInv'
    BY <2>1, <2>2 DEF ChainInv, AckedInv
  <2>11. LinkInv'
    <3>1. \A id, x : LeadsBack(id, x) => LeadsBack(id, x)'
      BY <2>2 DEF LeadsBack
    <3>2. LeadsBack(txn[t].latest, TenantOf[t[1]])
      BY <1>g DEF ChainInv, LinkInv, Chosen
    <3>3. txn[t].latest < n
      BY <2>2, <3>2 DEF LeadsBack
    <3>4. \A u \in Txns : txn'[u].pc \in Chosen => txn[u].pc \in Chosen
      BY <1>g, <2>t DEF Chosen
    <3>5. ASSUME NEW i \in 1..Len(table')
          PROVE  LeadsBack(table[i].prev, table[i].tenant)' /\ table'[i].prev < i
      <4>1. CASE i = n
        BY <4>1, <2>2, <3>1, <3>2, <3>3 DEF NewRow
      <4>2. CASE i # n
        BY <4>2, <2>2, <3>1 DEF ChainInv, LinkInv
      <4> QED BY <4>1, <4>2
    <3> QED BY <2>t, <3>1, <3>4, <3>5 DEF ChainInv, LinkInv
  <2>12. ContendedInv'
    BY <1>g, <2>t DEF ChainInv, ContendedInv, Open
  <2>13. NewestInv'
    <3>1. \A x : \A i \in RowsOf(x) : i < n
      BY <2>2 DEF RowsOf, Committed
    <3> QED BY <1>g, <2>t, <2>4, <2>5, <3>1 DEF ChainInv, NewestInv, Chosen
  <2>14. AnchorInv'
    BY <1>g, <2>t DEF ChainInv, AnchorInv, Open
  <2>15. UncontendedChainVerifies'
    <3>1. ASSUME NEW x, VerifyChain(x)
          PROVE  VerifyChain(x)'
      <4>1. \A i \in RowsOf(x) : table'[i] = table[i]
        BY <2>2 DEF RowsOf, Committed
      <4> QED BY <2>4, <3>1, <4>1 DEF VerifyChain
    <3> QED BY <1>g, <3>1 DEF ChainInv, UncontendedChainVerifies
  <2>16. QuietAnchorStaysValid'
    <3>1. \A d : DayHashes(d)' = DayHashes(d)
      BY <2>2, <2>3 DEF DayHashes, Committed
    <3> QED BY <1>g, <3>1 DEF ChainInv, QuietAnchorStaysValid, VerifyAnchor
  <2> QED BY <2>6, <2>7, <2>8, <2>9, <2>10, <2>11, <2>12, <2>13, <2>14, <2>15, <2>16
          DEF ChainInv
<1> QED BY <1>a, <1>b

\* The row of a transaction that inserted changes its state, and the
\* transaction ends: what both Commit and Rollback do.
RowEnds(t, st) ==
    /\ txn[t].pc = "inserted"
    /\ table' = [table EXCEPT ![txn[t].id].state = st]
    /\ UNCHANGED <<today, anchors, contended>>

\* What such an end does to the table.
LEMMA RowEndsTable ==
    ASSUME ChainInv, NEW t \in Txns, NEW st \in {"committed", "aborted"}, RowEnds(t, st)
    PROVE  /\ txn[t].id \in 1..Len(table)
           /\ table[txn[t].id] = NewRow(t)
           /\ table' \in Seq(Row)
           /\ Len(table') = Len(table)
           /\ table'[txn[t].id] = [NewRow(t) EXCEPT !.state = st]
           /\ \A i \in 1..Len(table) : i # txn[t].id => table'[i] = table[i]
           /\ \A i \in 1..Len(table) : /\ table'[i].event = table[i].event
                                       /\ table'[i].tenant = table[i].tenant
                                       /\ table'[i].day = table[i].day
                                       /\ table'[i].prev = table[i].prev
<1>1. txn[t].id \in 1..Len(table) /\ table[txn[t].id] = NewRow(t)
  BY DEF ChainInv, InsertedInv, RowEnds
<1>2. table \in Seq(Row)
  BY DEF ChainInv, TypeOK
<1>3. /\ table' \in Seq(Row)
      /\ Len(table') = Len(table)
      /\ table'[txn[t].id] = [NewRow(t) EXCEPT !.state = st]
      /\ \A i \in 1..Len(table) : i # txn[t].id => table'[i] = table[i]
  <2> DEFINE n == txn[t].id
             v == [table[n] EXCEPT !.state = st]
  <2>1. table[n] \in Row
    BY <1>1, <1>2
  <2>2. v \in Row
    BY <2>1 DEF Row
  <2>3. table' = [table EXCEPT ![n] = v]
    BY DEF RowEnds
  <2> HIDE DEF n
  <2>4. /\ [table EXCEPT ![n] = v] \in Seq(Row)
        /\ Len([table EXCEPT ![n] = v]) = Len(table)
        /\ \A j \in 1..Len(table) :
              [table EXCEPT ![n] = v][j] = IF j = n THEN v ELSE table[j]
    <3>1. n \in 1..Len(table)
      BY <1>1 DEF n
    <3> HIDE DEF v
    <3> QED BY <1>2, <2>2, <3>1, ExceptSeq
  <2> QED BY <1>1, <2>3, <2>4 DEF n
<1> QED BY <1>1, <1>3 DEF NewRow

\* The parts of the invariant that both ends of a transaction keep.
LEMMA RowEndsInv ==
    ASSUME ChainInv, NEW t \in Txns, NEW st \in {"committed", "aborted"}, RowEnds(t, st),
           NEW pc \in {"done", "aborted"}, txn' = [txn EXCEPT ![t].pc = pc],
           caller' \in {caller, Acked(t)}
    PROVE  /\ TypeOK' /\ AttemptsInv' /\ InsertedInv' /\ OneRowInv'
           /\ LinkInv' /\ ContendedInv' /\ AnchorInv'
<1> DEFINE n == txn[t].id
<1>0. t[1] \in Events /\ t[2] \in 1..Attempts /\ t = <<t[1], t[2]>>
  BY TxnPair
<1>1. /\ n \in 1..Len(table)
      /\ table[n] = NewRow(t)
      /\ table' \in Seq(Row)
      /\ Len(table') = Len(table)
      /\ table'[n] = [NewRow(t) EXCEPT !.state = st]
      /\ \A i \in 1..Len(table) : i # n => table'[i] = table[i]
      /\ \A i \in 1..Len(table) : /\ table'[i].event = table[i].event
                                  /\ table'[i].tenant = table[i].tenant
                                  /\ table'[i].day = table[i].day
                                  /\ table'[i].prev = table[i].prev
  BY RowEndsTable
<1>2. table[n].state = "pending" /\ table[n].event = t[1] /\ table'[n].state = st
  BY <1>1 DEF NewRow
<1>3. txn[t].pc = "inserted" /\ UNCHANGED <<today, anchors, contended>>
  BY DEF RowEnds
<1>t. \A u \in Txns :
         /\ txn'[u].pc = IF u = t THEN pc ELSE txn[u].pc
         /\ txn'[u].latest = txn[u].latest
         /\ txn'[u].day = txn[u].day
         /\ txn'[u].id = txn[u].id
  BY DEF ChainInv, TypeOK
<1>c. /\ caller' \in [Events -> [pc : {"idle", "calling", "acked", "failed"},
                                 attempt : 0..Attempts]]
      /\ \A e \in Events : /\ caller'[e].attempt = caller[e].attempt
                           /\ caller'[e].pc = "idle" => caller[e].pc = "idle"
  <2>1. caller' = caller \/ caller' = Acked(t)
    OBVIOUS
  <2>2. TypeOK
    BY DEF ChainInv
  <2> QED BY <2>1, <2>2, CallerTypes DEF TypeOK
<1>4. TypeOK'
  <2>1. txn' \in [Txns -> [pc : Open \cup {"none", "done", "aborted"},
                           latest : Nat, day : 0..MaxDay, id : Nat]]
    BY DEF ChainInv, TypeOK
  <2> QED BY <1>1, <1>3, <1>c, <2>1 DEF ChainInv, TypeOK
<1>5. AttemptsInv'
  BY <1>0, <1>3, <1>c, <1>t DEF ChainInv, AttemptsInv, Txns
<1>6. InsertedInv'
  <2>1. ASSUME NEW u \in Txns, txn'[u].pc = "inserted"
        PROVE  /\ txn[u].pc = "inserted"
               /\ txn'[u].id = txn[u].id
               /\ txn[u].id \in 1..Len(table)
               /\ NewRow(u)' = NewRow(u)
               /\ table[txn[u].id] = NewRow(u)
               /\ u # t
    BY <1>t, <2>1 DEF ChainInv, InsertedInv, NewRow
  <2>2. ASSUME NEW u \in Txns, txn'[u].pc = "inserted"
        PROVE  txn[u].id # n
    <3>1. u[1] # t[1]
      BY <1>3, <2>1, <2>2 DEF ChainInv, InsertedInv
    <3>2. table[txn[u].id].event = u[1]
      <4>1. table[txn[u].id] = NewRow(u)
        BY <2>1, <2>2
      <4>2. NewRow(u).event = u[1]
        BY DEF NewRow
      <4> QED BY <4>1, <4>2
    <3> QED BY <1>2, <3>1, <3>2
  <2> QED BY <1>1, <2>1, <2>2 DEF ChainInv, InsertedInv
<1>7. OneRowInv'
  BY <1>1, <1>2 DEF ChainInv, OneRowInv
<1>8. LinkInv'
  <2>1. \A id, x : LeadsBack(id, x) => LeadsBack(id, x)'
    BY <1>1, <1>2 DEF LeadsBack
  <2>2. \A u \in Txns : txn'[u].pc \in Chosen => txn[u].pc \in Chosen
    BY <1>t DEF Chosen
  <2> QED BY <1>1, <1>t, <2>1, <2>2 DEF ChainInv, LinkInv
<1>9. ContendedInv'
  BY <1>3, <1>t DEF ChainInv, ContendedInv, Open
<1>10. AnchorInv'
  BY <1>3, <1>t DEF ChainInv, AnchorInv, Open
<1> QED BY <1>4, <1>5, <1>6, <1>7, <1>8, <1>9, <1>10

\* A transaction commits its row.
LEMMA CommitInv ==
    ASSUME ChainInv, NEW t \in Txns, Commit(t)
    PROVE  ChainInv'
<1> DEFINE n == txn[t].id
           mine == TenantOf[t[1]]
<1>0. /\ RowEnds(t, "committed")
      /\ txn[t].pc = "inserted"
      /\ txn' = [txn EXCEPT ![t].pc = "done"]
      /\ caller' = Acked(t)
      /\ UNCHANGED <<today, anchors, contended>>
  BY DEF Commit, RowEnds
<1>1. /\ TypeOK' /\ AttemptsInv' /\ InsertedInv' /\ OneRowInv'
      /\ LinkInv' /\ ContendedInv' /\ AnchorInv'
  BY <1>0, RowEndsInv
<1>2. /\ n \in 1..Len(table)
      /\ table[n] = NewRow(t)
      /\ Len(table') = Len(table)
      /\ table'[n] = [NewRow(t) EXCEPT !.state = "committed"]
      /\ \A i \in 1..Len(table) : i # n => table'[i] = table[i]
      /\ \A i \in 1..Len(table) : /\ table'[i].event = table[i].event
                                  /\ table'[i].tenant = table[i].tenant
                                  /\ table'[i].day = table[i].day
                                  /\ table'[i].prev = table[i].prev
  BY <1>0, RowEndsTable
<1>3. /\ table'[n].state = "committed" /\ table[n].state = "pending"
      /\ table[n].event = t[1] /\ table[n].tenant = mine
      /\ table[n].prev = txn[t].latest /\ table[n].day = txn[t].day
  BY <1>2 DEF NewRow
<1>4. Committed' = Committed \cup {n} /\ n \notin Committed
  <2>1. \A i \in 1..Len(table) :
           table'[i].state = "committed" <=> table[i].state = "committed" \/ i = n
    BY <1>2, <1>3
  <2> QED BY <1>2, <1>3, <2>1 DEF Committed
<1>5. /\ \A x : x # mine => RowsOf(x)' = RowsOf(x)
      /\ RowsOf(mine)' = RowsOf(mine) \cup {n}
  <2>1. \A i \in Committed' : i \in 1..Len(table)
    BY <1>2 DEF Committed
  <2> QED BY <1>2, <1>3, <1>4, <2>1 DEF RowsOf
<1>6. \A x : x # mine => LatestEvent(x)' = LatestEvent(x)
  BY <1>5 DEF LatestEvent
<1>t. \A u \in Txns :
         /\ txn'[u].pc = IF u = t THEN "done" ELSE txn[u].pc
         /\ txn'[u].latest = txn[u].latest
         /\ txn'[u].id = txn[u].id
  BY <1>0 DEF ChainInv, TypeOK
<1>7. AckedInv'
  <2>1. \A d \in Events : caller'[d].pc = "acked" => caller[d].pc = "acked" \/ d = t[1]
    BY <1>0, CallerTypes DEF ChainInv
  <2>2. \A i \in 1..Len(table) :
           table[i].state = "committed" => table'[i].state = "committed"
    BY <1>2, <1>3
  <2>3. ASSUME NEW d \in Events, caller'[d].pc = "acked"
        PROVE  \E i \in 1..Len(table) : table'[i].state = "committed" /\ table'[i].event = d
    <3>1. CASE d = t[1]
      BY <1>2, <1>3, <3>1
    <3>2. CASE caller[d].pc = "acked"
      BY <1>2, <2>2, <3>2 DEF ChainInv, AckedInv
    <3> QED BY <2>1, <2>3, <3>1, <3>2
  <2> QED BY <1>2, <2>3 DEF AckedInv
<1>8. NewestInv'
  <2>1. ASSUME NEW u \in Txns, TenantOf[u[1]] \notin contended, txn'[u].pc \in Chosen
        PROVE  txn[u].pc = txn'[u].pc /\ TenantOf[u[1]] # mine
    <3>1. u # t /\ txn[u].pc = txn'[u].pc
      BY <1>t, <2>1 DEF Chosen
    <3>2. txn[u].pc \in Open /\ txn[t].pc \in Open
      BY <1>0, <2>1, <3>1 DEF Chosen, Open
    <3> QED BY <2>1, <3>1, <3>2 DEF ChainInv, ContendedInv
  <2>2. "inserted" \in Chosen
    BY DEF Chosen
  <2> QED BY <1>0, <1>5, <1>6, <1>t, <2>1, <2>2 DEF ChainInv, NewestInv
<1>9. UncontendedChainVerifies'
  <2>1. SUFFICES ASSUME NEW x \in Tenants \ contended
                 PROVE  VerifyChain(x)'
    BY <1>0 DEF UncontendedChainVerifies
  <2>2. VerifyChain(x)
    BY DEF ChainInv, UncontendedChainVerifies
  <2>3. CASE x # mine
    <3>1. \A i \in RowsOf(x) : table'[i].prev = table[i].prev
      BY <1>2 DEF RowsOf, Committed
    <3> QED BY <1>5, <2>2, <2>3, <3>1 DEF VerifyChain
  <2>4. CASE x = mine
    <3>1. /\ txn[t].latest = LatestEvent(mine)
          /\ \A i \in RowsOf(mine) : i < n
      BY <1>0, <2>4 DEF ChainInv, NewestInv, Chosen
    <3>2. ASSUME NEW i \in RowsOf(mine)', MaxId({j \in RowsOf(mine)' : j < i}) # 0
          PROVE  table'[i].prev = MaxId({j \in RowsOf(mine)' : j < i})
      <4>0. i \in 1..Len(table) /\ n \in Nat
        BY <1>2 DEF RowsOf, Committed
      <4>1. CASE i = n
        <5>1. {j \in RowsOf(mine)' : j < n} = RowsOf(mine)
          BY <1>5, <3>1, <4>0
        <5> QED BY <1>2, <1>3, <3>1, <4>1, <5>1 DEF LatestEvent
      <4>2. CASE i # n
        <5>1. i \in RowsOf(mine) /\ i < n
          BY <1>5, <3>1, <4>2
        <5>2. {j \in RowsOf(mine)' : j < i} = {j \in RowsOf(mine) : j < i}
          BY <1>5, <4>0, <5>1
        <5>3. table[i].prev = MaxId({j \in RowsOf(mine) : j < i})
          BY <2>2, <2>4, <3>2, <5>1, <5>2 DEF VerifyChain
        <5> QED BY <1>2, <4>0, <5>2, <5>3
      <4> QED BY <4>1, <4>2
    <3> QED BY <2>4, <3>2 DEF VerifyChain
  <2> QED BY <2>3, <2>4
<1>10. QuietAnchorStaysValid'
  <2>1. SUFFICES ASSUME NEW a \in anchors, a.quiet
                 PROVE  DayHashes(a.day)' = a.root
    BY <1>0 DEF QuietAnchorStaysValid, VerifyAnchor
  <2>2. txn[t].day # a.day /\ DayHashes(a.day) = a.root
    BY <1>0, <2>1 DEF ChainInv, AnchorInv, QuietAnchorStaysValid, VerifyAnchor, Open
  <2>3. \A i \in Committed' : table'[i].day = table[i].day
    BY <1>2 DEF Committed
  <2> QED BY <1>3, <1>4, <2>2, <2>3 DEF DayHashes
<1> QED BY <1>1, <1>7, <1>8, <1>9, <1>10 DEF ChainInv

\* A transaction rolls its row back.
LEMMA RollbackInv ==
    ASSUME ChainInv, NEW t \in Txns, Rollback(t)
    PROVE  ChainInv'
<1>0. /\ txn[t].pc \in Open
      /\ txn' = [txn EXCEPT ![t].pc = "aborted"]
      /\ UNCHANGED <<caller, today, anchors, contended>>
  BY DEF Rollback
<1>a. CASE txn[t].pc # "inserted"
  <2>1. table' = table
    BY <1>a DEF Rollback
  <2>2. AckedInv'
    BY <1>0, <2>1 DEF ChainInv, AckedInv
  <2> QED BY <1>0, <2>1, <2>2, PcMoves DEF Chosen
<1>b. CASE txn[t].pc = "inserted"
  <2> DEFINE n == txn[t].id
  <2>0. RowEnds(t, "aborted")
    BY <1>0, <1>b DEF Rollback, RowEnds
  <2>1. /\ TypeOK' /\ AttemptsInv' /\ InsertedInv' /\ OneRowInv'
        /\ LinkInv' /\ ContendedInv' /\ AnchorInv'
    BY <1>0, <2>0, RowEndsInv
  <2>2. /\ n \in 1..Len(table)
        /\ table[n].state = "pending"
        /\ Len(table') = Len(table)
        /\ table'[n].state = "aborted"
        /\ \A i \in 1..Len(table) : i # n => table'[i] = table[i]
    <3>1. /\ n \in 1..Len(table)
          /\ table[n] = NewRow(t)
          /\ Len(table') = Len(table)
          /\ table'[n] = [NewRow(t) EXCEPT !.state = "aborted"]
          /\ \A i \in 1..Len(table) : i # n => table'[i] = table[i]
      BY <2>0, RowEndsTable
    <3> QED BY <3>1 DEF NewRow
  <2>3. Committed' = Committed
    BY <2>2 DEF Committed
  <2>4. \A i \in Committed : table'[i] = table[i]
    BY <2>2 DEF Committed
  <2>5. \A x : RowsOf(x)' = RowsOf(x)
    BY <2>3, <2>4 DEF RowsOf
  <2>6. \A x : LatestEvent(x)' = LatestEvent(x)
    BY <2>5 DEF LatestEvent
  <2>7. AckedInv'
    BY <1>0, <2>2 DEF ChainInv, AckedInv
  <2>8. NewestInv'
    <3>1. \A u \in Txns : /\ txn'[u].pc \in Chosen => txn'[u].pc = txn[u].pc
                          /\ txn'[u].pc = "inserted" => txn'[u].pc = txn[u].pc
                          /\ txn'[u].latest = txn[u].latest
                          /\ txn'[u].id = txn[u].id
      BY <1>0 DEF ChainInv, TypeOK, Chosen
    <3> QED BY <1>0, <2>5, <2>6, <3>1 DEF ChainInv, NewestInv
  <2>9. UncontendedChainVerifies'
    <3>1. ASSUME NEW x, VerifyChain(x)
          PROVE  VerifyChain(x)'
      <4>1. \A i \in RowsOf(x) : table'[i] = table[i]
        BY <2>4 DEF RowsOf
      <4> QED BY <2>5, <3>1, <4>1 DEF VerifyChain
    <3> QED BY <1>0, <3>1 DEF ChainInv, UncontendedChainVerifies
  <2>10. QuietAnchorStaysValid'
    <3>1. \A d : DayHashes(d)' = DayHashes(d)
      BY <2>3, <2>4 DEF DayHashes
    <3> QED BY <1>0, <3>1 DEF ChainInv, QuietAnchorStaysValid, VerifyAnchor
  <2> QED BY <2>1, <2>7, <2>8, <2>9, <2>10 DEF ChainInv
<1> QED BY <1>a, <1>b

\* The parts of the invariant that do not speak of days.
LEMMA CalendarKeeps ==
    ASSUME ChainInv, UNCHANGED <<caller, txn, table, contended>>
    PROVE  /\ AttemptsInv' /\ InsertedInv' /\ OneRowInv' /\ AckedInv' /\ LinkInv'
           /\ ContendedInv' /\ NewestInv' /\ UncontendedChainVerifies'
<1>1. InsertedInv' /\ LinkInv' /\ ContendedInv' /\ AttemptsInv' /\ AckedInv'
  BY DEF ChainInv, InsertedInv, NewRow, LinkInv, LeadsBack, ContendedInv,
         AttemptsInv, AckedInv
<1>2. NewestInv' /\ UncontendedChainVerifies' /\ OneRowInv'
  BY TableKept DEF ChainInv, NewestInv, UncontendedChainVerifies
<1> QED BY <1>1, <1>2

\* The daily anchor is written.
LEMMA RunDailyAnchorInv ==
    ASSUME ChainInv, RunDailyAnchor
    PROVE  ChainInv'
<1> DEFINE quiet == ~\E t \in Txns : txn[t].pc \in Open /\ txn[t].day = today - 1
           a == [day |-> today - 1, root |-> DayHashes(today - 1), quiet |-> quiet]
<1>0. /\ today > 0
      /\ anchors' = anchors \cup {a}
      /\ UNCHANGED <<caller, txn, table, today, contended>>
  BY DEF RunDailyAnchor
<1>1. /\ AttemptsInv' /\ InsertedInv' /\ OneRowInv' /\ AckedInv' /\ LinkInv'
      /\ ContendedInv' /\ NewestInv' /\ UncontendedChainVerifies'
  BY <1>0, CalendarKeeps
<1>2. a \in [day : 0..MaxDay, root : SUBSET Nat, quiet : BOOLEAN]
  <2>1. DayHashes(today - 1) \subseteq Nat
    BY DEF DayHashes, Committed
  <2>2. today - 1 \in 0..MaxDay
    BY <1>0, ChainAssumption DEF ChainInv, TypeOK
  <2>3. quiet \in BOOLEAN
    OBVIOUS
  <2> HIDE DEF quiet
  <2> QED BY <2>1, <2>2, <2>3
<1>3. /\ a.day = today - 1
      /\ a.quiet = quiet
      /\ a.root = DayHashes(a.day)
  OBVIOUS
<1> HIDE DEF a
<1>4. TypeOK'
  BY <1>0, <1>2 DEF ChainInv, TypeOK
<1>5. AnchorInv'
  <2>1. today \in Nat
    BY DEF ChainInv, TypeOK
  <2>2. a.day < today
    BY <1>3, <2>1
  <2>3. a.quiet => \A t \in Txns : txn[t].pc \in Open => txn[t].day # a.day
    BY <1>3
  <2> QED BY <1>0, <2>2, <2>3 DEF ChainInv, AnchorInv
<1>6. QuietAnchorStaysValid'
  BY <1>0, <1>3, TableKept DEF ChainInv, QuietAnchorStaysValid, VerifyAnchor
<1> QED BY <1>1, <1>4, <1>5, <1>6 DEF ChainInv

\* A day ends.
LEMMA MidnightInv ==
    ASSUME ChainInv, Midnight
    PROVE  ChainInv'
<1>0. /\ today < MaxDay
      /\ today' = today + 1
      /\ UNCHANGED <<caller, txn, table, anchors, contended>>
  BY DEF Midnight
<1>1. /\ AttemptsInv' /\ InsertedInv' /\ OneRowInv' /\ AckedInv' /\ LinkInv'
      /\ ContendedInv' /\ NewestInv' /\ UncontendedChainVerifies'
  BY <1>0, CalendarKeeps
<1>2. TypeOK'
  BY <1>0, ChainAssumption DEF ChainInv, TypeOK
<1>3. AnchorInv'
  BY <1>0 DEF ChainInv, AnchorInv, TypeOK
<1>4. QuietAnchorStaysValid'
  BY <1>0, TableKept DEF ChainInv, QuietAnchorStaysValid, VerifyAnchor
<1> QED BY <1>1, <1>2, <1>3, <1>4 DEF ChainInv

\* A step in which nothing changes.
LEMMA ChainStutterInv ==
    ASSUME ChainInv, UNCHANGED vars
    PROVE  ChainInv'
<1>0. UNCHANGED <<caller, txn, table, today, anchors, contended>>
  BY DEF vars
<1>1. /\ AttemptsInv' /\ InsertedInv' /\ OneRowInv' /\ AckedInv' /\ LinkInv'
      /\ ContendedInv' /\ NewestInv' /\ UncontendedChainVerifies'
  BY <1>0, CalendarKeeps
<1>2. TypeOK' /\ AnchorInv'
  BY <1>0 DEF ChainInv, TypeOK, AnchorInv
<1>3. QuietAnchorStaysValid'
  BY <1>0, TableKept DEF ChainInv, QuietAnchorStaysValid, VerifyAnchor
<1> QED BY <1>1, <1>2, <1>3 DEF ChainInv

\* The invariant holds at the start.
LEMMA ChainInitInv == Init => ChainInv
<1> SUFFICES ASSUME Init PROVE ChainInv
  OBVIOUS
<1>1. TypeOK
  BY ChainAssumption DEF Init, TypeOK, Open, Row
<1>2. AttemptsInv /\ InsertedInv /\ AckedInv /\ ContendedInv /\ AnchorInv
  BY ChainAssumption DEF Init, AttemptsInv, InsertedInv, AckedInv, ContendedInv,
     AnchorInv, Open, Txns
<1>3. Len(table) = 0
  BY DEF Init
<1>4. Committed = {}
  BY <1>3 DEF Committed
<1>5. OneRowInv
  BY <1>3 DEF OneRowInv
<1>6. \A t \in Txns : txn[t].pc \notin Chosen /\ txn[t].pc # "inserted"
  BY DEF Init, Chosen
<1>7. LinkInv /\ NewestInv
  BY <1>3, <1>6 DEF LinkInv, NewestInv
<1>8. UncontendedChainVerifies /\ QuietAnchorStaysValid
  BY <1>4 DEF Init, UncontendedChainVerifies, VerifyChain, RowsOf, QuietAnchorStaysValid
<1> QED BY <1>1, <1>2, <1>5, <1>7, <1>8 DEF ChainInv

-----------------------------------------------------------------------------
(***************************************************************************)
(* The theorems.                                                           *)
(***************************************************************************)

\* The invariant of the chain holds in every reachable state, however writes,
\* timeouts, rollbacks, late commits, anchors and midnights interleave.
THEOREM ChainInvariant == Spec => []ChainInv
<1>1. ChainInv /\ [Next]_vars => ChainInv'
  <2> SUFFICES ASSUME ChainInv, [Next]_vars PROVE ChainInv'
    OBVIOUS
  <2>1. ASSUME NEW e \in Events, Begin(e) PROVE ChainInv'
    BY <2>1, BeginInv
  <2>2. ASSUME NEW e \in Events, Timeout(e) PROVE ChainInv'
    BY <2>2, TimeoutInv
  <2>3. ASSUME NEW t \in Txns, Step(t) PROVE ChainInv'
    BY <2>3, SelectLatestInv, LockGrantedInv, CheckExistingInv, InsertInv,
       CommitInv, RollbackInv DEF Step
  <2>4. CASE RunDailyAnchor
    BY <2>4, RunDailyAnchorInv
  <2>5. CASE Midnight
    BY <2>5, MidnightInv
  <2>6. CASE Done \/ UNCHANGED vars
    BY <2>6, ChainStutterInv DEF Done
  <2> QED BY <2>1, <2>2, <2>3, <2>4, <2>5, <2>6 DEF Next
<1> QED BY <1>1, ChainInitInv, PTL DEF Spec

\* Callers, transactions, table and anchors keep their types.
THEOREM ChainTypeCorrect == Spec => []TypeOK
<1>1. ChainInv => TypeOK
  BY DEF ChainInv
<1> QED BY <1>1, ChainInvariant, PTL

\* store_event stores an acknowledged event, and stores no event twice, for any
\* number of attempts, time-outs and late commits.
THEOREM AcknowledgedOnce == Spec => []AckedEventStoredOnce
<1>1. ChainInv => AckedEventStoredOnce
  <2> SUFFICES ASSUME ChainInv, NEW e \in Events
               PROVE  LET stored == {i \in Committed : table[i].event = e}
                      IN  /\ caller[e].pc = "acked" => stored # {}
                          /\ Cardinality(stored) <= 1
    BY DEF AckedEventStoredOnce
  <2> DEFINE stored == {i \in Committed : table[i].event = e}
  <2>1. caller[e].pc = "acked" => stored # {}
    BY DEF ChainInv, AckedInv, Committed
  <2>2. \A i, j \in stored : i = j
    BY DEF ChainInv, OneRowInv, Committed
  <2> HIDE DEF stored
  <2>3. Cardinality(stored) <= 1
    <3>1. CASE stored = {}
      BY <3>1, FS_EmptySet
    <3>2. ASSUME NEW i \in stored PROVE Cardinality(stored) <= 1
      <4>1. stored = {i}
        BY <2>2
      <4>2. Cardinality({i}) = 1
        BY FS_Singleton
      <4> QED BY <4>1, <4>2
    <3> QED BY <3>1, <3>2
  <2> QED BY <2>1, <2>3 DEF stored
<1> QED BY <1>1, ChainInvariant, PTL

\* Links lead back to committed events of the tenant, the chain of a tenant
\* without overlapping writes verifies, and an anchor of a quiet day stays
\* valid: for any number of writers, tenants, failures and days.
THEOREM ChainSound == Spec => []ChainHoldsTogether
<1>1. ChainInv => ChainHoldsTogether
  <2>1. ChainInv => LinksLeadBack
    BY DEF ChainInv, LinkInv, LinksLeadBack, LeadsBack, Committed
  <2> QED BY <2>1 DEF ChainInv, ChainHoldsTogether
<1> QED BY <1>1, ChainInvariant, PTL
-----------------------------------------------------------------------------
(***************************************************************************)
(* DataSubjects.  What a fulfilment noted when it began stays comparable   *)
(* with what is there later, because holds never become active again and   *)
(* keys are written once; the scans take what was there pattern by pattern. *)
(***************************************************************************)

\* A worker's record and a request's row have their fields.
CallShape(c) ==
    \/ c = IdleWorker
    \/ /\ DOMAIN c = {"pc", "request", "subject", "result", "since", "had", "sure", "swept"}
       /\ c.pc # "idle"
       /\ c.pc = "hold" => c.result = "deleted"
RowShape(q) == DOMAIN q = {"type", "subject", "status", "result", "since", "had", "sure"}

\* None of the holds H is active and covers s.
Unheld(H, s) == \A h \in H : ~(holdRows[h] = "active" /\ Covers(h, s))

\* What the scans of a call have behind them.
Swept(c) ==
    /\ "erasure" \in wiring
    /\ \A k \in c.had : k.subject = c.subject
    /\ c.pc = "scan2" => \A k \in c.had \cap keys : k.pattern # 1
    /\ c.pc \in {"record", "update"} => c.had \cap keys = {}

\* A call on its way to answer deleted.
CallSound(c) ==
    c.pc # "idle" /\ c.result = "deleted" =>
        /\ c.pc \in {"hold", "scan1", "scan2", "record", "update"}
        /\ c.request \in DOMAIN requests /\ requests[c.request].subject = c.subject
        /\ c.since \subseteq DOMAIN holdRows
        /\ c.had \subseteq written
        /\ c.sure /\ c.pc # "hold" => Unheld(c.since, c.subject)
        /\ c.swept => Swept(c)

\* A request that was answered deleted.
RowSound(q) ==
    q.result = "deleted" =>
        /\ q.since \subseteq DOMAIN holdRows
        /\ q.had \subseteq written
        /\ q.sure => Unheld(q.since, q.subject)
        /\ q.had \cap keys = {}

SubjectShapes ==
    /\ call = [w \in Workers |-> call[w]]
    /\ \A w \in Workers : CallShape(call[w])
    /\ requests = [r \in DOMAIN requests |-> requests[r]]
    /\ \A r \in DOMAIN requests : RowShape(requests[r])
    /\ holdRows = [h \in DOMAIN holdRows |-> holdRows[h]]
    /\ keys \subseteq written /\ written \subseteq Keys

ErasureSound ==
    /\ \A w \in Workers : CallSound(call[w])
    /\ \A r \in DOMAIN requests : RowSound(requests[r])

\* Worker v is in the middle of a restriction call on s.
Touches(v, s) ==
    /\ call[v].pc \in {"probe", "probeRow", "insert", "cache", "deleteRow", "dropCache"}
    /\ call[v].subject = s

TouchSound(s) ==
    s \notin unsure =>
        /\ \A v, w \in Workers : Touches(v, s) /\ Touches(w, s) => v = w
        /\ \A v \in Workers : Touches(v, s) /\ call[v].pc = "cache" => s \in restricted
        /\ s \in cached =>
              s \in restricted \/ \E v \in Workers : Touches(v, s) /\ call[v].pc = "dropCache"

RestrictionSound == \A s \in Subjects : TouchSound(s)

SubjectInv == SubjectShapes /\ ErasureSound /\ RestrictionSound

-----------------------------------------------------------------------------
(* What a step may do to what a call or a row refers to. *)

\* Requests and holds stay, a hold never becomes active again and a key that
\* was written before does not come back.
Onwards ==
    /\ \A r \in DOMAIN requests :
          r \in DOMAIN requests' /\ requests'[r].subject = requests[r].subject
    /\ \A h \in DOMAIN holdRows :
          h \in DOMAIN holdRows' /\ (holdRows'[h] = "active" => holdRows[h] = "active")
    /\ keys' \cap written \subseteq keys
    /\ written \subseteq written' /\ wiring' = wiring

\* A call that waits stays sound.
LEMMA CallStays == ASSUME NEW c, CallSound(c), Onwards PROVE CallSound(c)'
<1> SUFFICES ASSUME c.pc # "idle", c.result = "deleted"
             PROVE  /\ c.pc \in {"hold", "scan1", "scan2", "record", "update"}
                    /\ c.request \in DOMAIN requests'
                    /\ requests'[c.request].subject = c.subject
                    /\ c.since \subseteq DOMAIN holdRows'
                    /\ c.had \subseteq written'
                    /\ c.sure /\ c.pc # "hold" => Unheld(c.since, c.subject)'
                    /\ c.swept => Swept(c)'
  BY DEF CallSound
<1>1. /\ c.pc \in {"hold", "scan1", "scan2", "record", "update"}
      /\ c.request \in DOMAIN requests /\ requests[c.request].subject = c.subject
      /\ c.since \subseteq DOMAIN holdRows
      /\ c.had \subseteq written
      /\ c.sure /\ c.pc # "hold" => Unheld(c.since, c.subject)
      /\ c.swept => Swept(c)
  BY DEF CallSound
<1>2. c.sure /\ c.pc # "hold" => Unheld(c.since, c.subject)'
  BY <1>1 DEF Onwards, Unheld, Covers
<1>3. c.swept => Swept(c)'
  BY <1>1 DEF Onwards, Swept
<1> QED BY <1>1, <1>2, <1>3 DEF Onwards

\* A row stays sound.
LEMMA RowStays == ASSUME NEW q, RowSound(q), Onwards PROVE RowSound(q)'
BY DEF RowSound, Onwards, Unheld, Covers

\* The rows as they were are still sound.
LEMMA RowsStay ==
    ASSUME ErasureSound, Onwards, requests' = requests
    PROVE  \A r \in DOMAIN requests' : RowSound(requests[r])'
<1> SUFFICES ASSUME NEW r \in DOMAIN requests PROVE RowSound(requests[r])'
  OBVIOUS
<1>1. RowSound(requests[r])
  BY DEF ErasureSound
<1>2. PICK q : q = requests[r]
  OBVIOUS
<1>3. RowSound(q)'
  BY <1>1, <1>2, RowStays
<1> QED BY <1>2, <1>3 DEF RowSound

\* The calls as they were are still sound.
LEMMA CallsStay ==
    ASSUME ErasureSound, Onwards, NEW v \in Workers, call'[v] = call[v]
    PROVE  CallSound(call[v])'
<1>1. CallSound(call[v])
  BY DEF ErasureSound
<1>2. PICK c : c = call[v]
  OBVIOUS
<1>3. CallSound(c)'
  BY <1>1, <1>2, CallStays
<1> QED BY <1>2, <1>3

\* One worker moves on while the requests and holds stay.
LEMMA CallMoves ==
    ASSUME SubjectShapes, ErasureSound, Onwards, NEW w \in Workers, NEW n,
           call' = [call EXCEPT ![w] = n], CallShape(n), CallSound(n)',
           requests' = requests, holdRows' = holdRows, written' = written, keys' \subseteq keys
    PROVE  SubjectShapes' /\ ErasureSound'
<1>1. \A v \in Workers : call'[v] = IF v = w THEN n ELSE call[v]
  BY DEF SubjectShapes
<1>2. call' = [v \in Workers |-> call'[v]]
  BY DEF SubjectShapes
<1>3. ASSUME NEW v \in Workers PROVE CallShape(call'[v])
  BY <1>1 DEF SubjectShapes
<1>4. SubjectShapes'
  <2>1. \A v \in Workers : CallShape(call[v])'
    BY <1>3 DEF CallShape, IdleWorker
  <2>2. \A r \in DOMAIN requests' : RowShape(requests[r])'
    BY DEF SubjectShapes, RowShape
  <2> QED BY <1>2, <2>1, <2>2 DEF SubjectShapes
<1>5. ASSUME NEW v \in Workers PROVE CallSound(call[v])'
  <2>1. CASE v = w
    <3>1. call'[v] = n
      BY <1>1, <2>1
    <3> QED BY <3>1
  <2>2. CASE v # w
    BY <1>1, <2>2, CallsStay
  <2> QED BY <2>1, <2>2
<1> QED BY <1>4, <1>5, RowsStay DEF ErasureSound

\* Nobody moves: holds, keys and the tables of restrictions do.
LEMMA NobodyMoves ==
    ASSUME SubjectShapes, ErasureSound, Onwards, call' = call, requests' = requests,
           holdRows' = [h \in DOMAIN holdRows' |-> holdRows'[h]],
           keys' \subseteq written', written' \subseteq Keys
    PROVE  SubjectShapes' /\ ErasureSound'
<1>1. SubjectShapes'
  BY DEF SubjectShapes, CallShape, IdleWorker, RowShape
<1>2. \A v \in Workers : CallSound(call[v])'
  BY CallsStay
<1> QED BY <1>1, <1>2, RowsStay DEF ErasureSound

\* Holds come and go.
LEMMA HoldInv ==
    ASSUME SubjectShapes, ErasureSound, NEW h, ActivateHold(h) \/ ReleaseHold(h) \/ ExpireHold(h)
    PROVE  SubjectShapes' /\ ErasureSound'
<1>0. /\ call' = call /\ requests' = requests /\ keys' = keys /\ written' = written
      /\ wiring' = wiring
  BY DEF ActivateHold, ReleaseHold, ExpireHold
<1>1. /\ \A x \in DOMAIN holdRows :
            x \in DOMAIN holdRows' /\ (holdRows'[x] = "active" => holdRows[x] = "active")
      /\ holdRows' = [x \in DOMAIN holdRows' |-> holdRows'[x]]
  <2>1. CASE ActivateHold(h)
    BY <2>1 DEF ActivateHold, SubjectShapes
  <2>2. CASE ReleaseHold(h)
    BY <2>2 DEF ReleaseHold, SubjectShapes
  <2>3. CASE ExpireHold(h)
    BY <2>3 DEF ExpireHold, SubjectShapes
  <2> QED BY <2>1, <2>2, <2>3
<1>2. Onwards
  BY <1>0, <1>1 DEF Onwards
<1>3. keys' \subseteq written' /\ written' \subseteq Keys
  BY <1>0 DEF SubjectShapes
<1> QED BY <1>0, <1>1, <1>2, <1>3, NobodyMoves

\* A mapping is written, under a key that was never written.
LEMMA WriteMappingInv ==
    ASSUME SubjectShapes, ErasureSound, NEW k \in Keys, WriteMapping(k)
    PROVE  SubjectShapes' /\ ErasureSound'
<1>1. Onwards
  BY DEF WriteMapping, Onwards
<1>2. /\ call' = call /\ requests' = requests /\ holdRows' = holdRows
      /\ keys' \subseteq written' /\ written' \subseteq Keys
  BY DEF WriteMapping, SubjectShapes
<1>3. holdRows' = [x \in DOMAIN holdRows' |-> holdRows'[x]]
  BY <1>2 DEF SubjectShapes
<1> QED BY <1>1, <1>2, <1>3, NobodyMoves

\* A restriction key expires.
LEMMA ExpiryInv ==
    ASSUME SubjectShapes, ErasureSound, NEW s, CacheExpires(s)
    PROVE  SubjectShapes' /\ ErasureSound'
<1>1. /\ Onwards /\ call' = call /\ requests' = requests /\ holdRows' = holdRows
      /\ keys' \subseteq written' /\ written' \subseteq Keys
  BY DEF CacheExpires, SubjectShapes, Onwards
<1>2. holdRows' = [x \in DOMAIN holdRows' |-> holdRows'[x]]
  BY <1>1 DEF SubjectShapes
<1> QED BY <1>1, <1>2, NobodyMoves

\* One row changes, to one that is sound, and its subject stays.
LEMMA RowMoves ==
    ASSUME SubjectShapes, ErasureSound, NEW r, NEW q, RowShape(q), RowSound(q),
           DOMAIN requests' = DOMAIN requests \union {r},
           requests' = [x \in DOMAIN requests \union {r} |-> IF x = r THEN q ELSE requests[x]],
           r \in DOMAIN requests => q.subject = requests[r].subject,
           holdRows' = holdRows, keys' = keys, written' = written, wiring' = wiring
    PROVE  /\ Onwards
           /\ requests' = [x \in DOMAIN requests' |-> requests'[x]]
           /\ \A x \in DOMAIN requests' : RowShape(requests[x])' /\ RowSound(requests[x])'
<1>1. Onwards
  BY DEF Onwards
<1>2. ASSUME NEW x \in DOMAIN requests' PROVE RowShape(requests[x])' /\ RowSound(requests[x])'
  <2>1. RowShape(requests'[x]) /\ RowSound(requests'[x])
    BY DEF SubjectShapes, ErasureSound
  <2>2. PICK p : p = requests'[x]
    OBVIOUS
  <2>3. RowSound(p)'
    BY <1>1, <2>1, <2>2, RowStays
  <2> QED BY <2>1, <2>2, <2>3 DEF RowShape
<1> QED BY <1>1, <1>2

\* A request is submitted, or its subject's identity verified.
LEMMA SubmitInv ==
    ASSUME SubjectShapes, ErasureSound, NEW r, NEW type, NEW s,
           SubmitRequest(r, type, s) \/ VerifyRequest(r)
    PROVE  SubjectShapes' /\ ErasureSound'
<1>0. /\ call' = call /\ holdRows' = holdRows /\ keys' = keys /\ written' = written
      /\ wiring' = wiring
  BY DEF SubmitRequest, VerifyRequest
<1>1. \E q : /\ RowShape(q) /\ RowSound(q)
             /\ DOMAIN requests' = DOMAIN requests \union {r}
             /\ requests' = [x \in DOMAIN requests \union {r} |-> IF x = r THEN q ELSE requests[x]]
             /\ r \in DOMAIN requests => q.subject = requests[r].subject
  <2>1. CASE SubmitRequest(r, type, s)
    <3> DEFINE q == [type |-> type, subject |-> s, status |-> "pending_verification",
                     result |-> "none", since |-> {}, had |-> {}, sure |-> FALSE]
    <3>1. RowShape(q) /\ RowSound(q)
      BY DEF RowShape, RowSound
    <3>2. /\ r \notin DOMAIN requests
          /\ requests' = [x \in DOMAIN requests \union {r} |-> IF x = r THEN q ELSE requests[x]]
      BY <2>1 DEF SubmitRequest
    <3> HIDE DEF q
    <3> QED BY <3>1, <3>2
  <2>2. CASE VerifyRequest(r)
    <3>1. /\ r \in DOMAIN requests
          /\ requests' = [requests EXCEPT ![r] = [@ EXCEPT !.status = "processing"]]
      BY <2>2 DEF VerifyRequest
    <3> DEFINE p == requests[r]
               q == [p EXCEPT !.status = "processing"]
    <3>2. RowShape(p) /\ RowSound(p)
      BY <3>1 DEF SubjectShapes, ErasureSound
    <3>3. requests' = [requests EXCEPT ![r] = q]
      BY <3>1
    <3> HIDE DEF p
    <3>4. /\ RowShape(q) /\ q.result = p.result /\ q.since = p.since /\ q.had = p.had
          /\ q.sure = p.sure /\ q.subject = p.subject
      BY <3>2 DEF RowShape
    <3> HIDE DEF q
    <3>5. RowSound(q)
      BY <3>2, <3>4 DEF RowSound
    <3>6. requests' = [x \in DOMAIN requests \union {r} |-> IF x = r THEN q ELSE requests[x]]
      BY <3>1, <3>3, ZenonT(60) DEF SubjectShapes
    <3> QED BY <3>1, <3>4, <3>5, <3>6 DEF p
  <2> QED BY <2>1, <2>2
<1>2. /\ Onwards
      /\ requests' = [x \in DOMAIN requests' |-> requests'[x]]
      /\ \A x \in DOMAIN requests' : RowShape(requests[x])' /\ RowSound(requests[x])'
  BY <1>0, <1>1, RowMoves
<1>3. \A v \in Workers : CallSound(call[v])'
  BY <1>0, <1>2, CallsStay
<1>4. SubjectShapes'
  BY <1>0, <1>2 DEF SubjectShapes, CallShape, IdleWorker
<1> QED BY <1>2, <1>3, <1>4 DEF ErasureSound

\* A call that is not on its way to answer deleted is sound.
LEMMA OtherCall == ASSUME NEW n, n.pc = "idle" \/ n.result # "deleted" PROVE CallSound(n)'
BY DEF CallSound

\* Nothing but a call and the restriction tables changes.
LEMMA QuietOnwards ==
    ASSUME requests' = requests, holdRows' = holdRows, written' = written, wiring' = wiring,
           keys' \subseteq keys
    PROVE  Onwards
BY DEF Onwards

\* A fulfilment begins: it notes the holds and the keys there are.
LEMMA FulfilInv ==
    ASSUME SubjectShapes, ErasureSound, NEW w \in Workers, NEW r, Fulfil(w, r)
    PROVE  SubjectShapes' /\ ErasureSound'
<1>0. /\ r \in DOMAIN requests
      /\ requests' = requests /\ holdRows' = holdRows /\ written' = written
      /\ wiring' = wiring /\ keys' = keys
  BY DEF Fulfil
<1> DEFINE q == requests[r]
           pc == CASE q.type = "erasure" /\ "hold" \in wiring -> "hold"
                   [] q.type = "erasure" /\ "hold" \notin wiring -> AfterHold(FALSE)
                   [] q.type = "restriction" /\ "restriction" \in wiring -> "probe"
                   [] OTHER -> "update"
           result == CASE q.type = "erasure" -> "deleted"
                       [] q.type = "restriction" -> "processing_restricted"
                       [] OTHER -> "active"
           m == [pc |-> pc, request |-> r, subject |-> q.subject, result |-> result,
                 since |-> {h \in DOMAIN holdRows : holdRows[h] = "active"},
                 had |-> {k \in keys : k.subject = q.subject},
                 sure |-> "hold" \in wiring, swept |-> "erasure" \in wiring]
<1>1. call' = [call EXCEPT ![w] = m]
  BY DEF Fulfil
<1>2. result = "deleted" =>
         /\ pc \in {"hold", "scan1", "update"}
         /\ pc # "hold" => "hold" \notin wiring
         /\ pc = "update" => "erasure" \notin wiring
  <2>1. result = "deleted" => q.type = "erasure"
    OBVIOUS
  <2>2. q.type = "erasure" /\ "hold" \in wiring => pc = "hold"
    OBVIOUS
  <2>3. q.type = "erasure" /\ "hold" \notin wiring =>
           pc = IF "erasure" \in wiring THEN "scan1" ELSE "update"
    BY DEF AfterHold
  <2> HIDE DEF pc, result, q
  <2> QED BY <2>1, <2>2, <2>3
<1>3. pc # "idle" /\ (pc = "hold" => result = "deleted")
  <2>1. q.type = "erasure" => pc # "idle" /\ result = "deleted"
    BY DEF AfterHold
  <2>2. q.type # "erasure" => pc \in {"probe", "update"}
    OBVIOUS
  <2> HIDE DEF pc, result, q
  <2> QED BY <2>1, <2>2
<1> HIDE DEF pc, result, q
<1>4. PICK n : n = m
  OBVIOUS
<1>5. /\ DOMAIN n = {"pc", "request", "subject", "result", "since", "had", "sure", "swept"}
      /\ n.pc = pc /\ n.request = r /\ n.subject = q.subject /\ n.result = result
      /\ n.since = {h \in DOMAIN holdRows : holdRows[h] = "active"}
      /\ n.had = {k \in keys : k.subject = q.subject}
      /\ n.sure = ("hold" \in wiring) /\ n.swept = ("erasure" \in wiring)
  BY <1>4
<1>6. call' = [call EXCEPT ![w] = n]
  BY <1>1, <1>4
<1> HIDE DEF m
<1>7. CallShape(n)
  BY <1>3, <1>5 DEF CallShape
<1>8. Onwards
  BY <1>0, QuietOnwards
<1>9. CallSound(n)
  <2> SUFFICES ASSUME n.result = "deleted"
               PROVE  /\ n.pc \in {"hold", "scan1", "scan2", "record", "update"}
                      /\ n.request \in DOMAIN requests
                      /\ requests[n.request].subject = n.subject
                      /\ n.since \subseteq DOMAIN holdRows
                      /\ n.had \subseteq written
                      /\ n.sure /\ n.pc # "hold" => Unheld(n.since, n.subject)
                      /\ n.swept => Swept(n)
    BY DEF CallSound
  <2>1. /\ n.pc \in {"hold", "scan1", "update"}
        /\ n.pc # "hold" => ~n.sure
        /\ n.pc = "update" => ~n.swept
    BY <1>2, <1>5
  <2>2. n.swept => Swept(n)
    BY <1>5, <2>1 DEF Swept
  <2> QED BY <1>0, <1>5, <2>1, <2>2 DEF SubjectShapes, q
<1>10. CallSound(n)'
  BY <1>8, <1>9, CallStays
<1> QED BY <1>0, <1>6, <1>7, <1>8, <1>10, CallMoves

\* The hold check: no active hold covers the subject when it says so.
LEMMA CheckHoldInv ==
    ASSUME SubjectShapes, ErasureSound, NEW w \in Workers, CheckHold(w)
    PROVE  SubjectShapes' /\ ErasureSound'
<1>0. /\ call[w].pc = "hold"
      /\ requests' = requests /\ holdRows' = holdRows /\ written' = written
      /\ wiring' = wiring /\ keys' = keys
  BY DEF CheckHold
<1>1. PICK answered \in BOOLEAN :
         call' = [call EXCEPT ![w].pc = AfterHold(answered /\ IsOnHold(call[w].subject)),
                              ![w].sure = answered,
                              ![w].result = IF answered /\ IsOnHold(call[w].subject)
                                            THEN "legal_hold" ELSE "deleted"]
  BY DEF CheckHold
<1> DEFINE c == call[w]
           onHold == answered /\ IsOnHold(c.subject)
           m == [c EXCEPT !.pc = AfterHold(onHold), !.sure = answered,
                          !.result = IF onHold THEN "legal_hold" ELSE "deleted"]
<1>2. call' = [call EXCEPT ![w] = m]
  BY <1>1 DEF SubjectShapes
<1>3. CallShape(c) /\ CallSound(c) /\ c.pc = "hold"
  BY <1>0 DEF SubjectShapes, ErasureSound
<1>4. PICK n : n = m
  OBVIOUS
<1>5. /\ call' = [call EXCEPT ![w] = n]
      /\ DOMAIN n = {"pc", "request", "subject", "result", "since", "had", "sure", "swept"}
      /\ n.pc = AfterHold(onHold) /\ n.sure = answered
      /\ n.result = IF onHold THEN "legal_hold" ELSE "deleted"
      /\ n.request = c.request /\ n.subject = c.subject /\ n.since = c.since
      /\ n.had = c.had /\ n.swept = c.swept
  <2>1. DOMAIN c = {"pc", "request", "subject", "result", "since", "had", "sure", "swept"}
    BY <1>3 DEF CallShape, IdleWorker
  <2> HIDE DEF c, onHold
  <2> QED BY <1>2, <1>4, <2>1
<1>6. n.pc \in {"scan1", "update"} /\ (n.pc = "update" => onHold \/ "erasure" \notin wiring)
  BY <1>5 DEF AfterHold
<1>7. CallShape(n)
  BY <1>5, <1>6 DEF CallShape
<1>8. Onwards
  BY <1>0, QuietOnwards
<1>9. CASE onHold
  <2>1. n.result # "deleted"
    BY <1>5, <1>9
  <2>2. CallSound(n)'
    BY <2>1, OtherCall
  <2> QED BY <1>0, <1>5, <1>7, <1>8, <2>2, CallMoves
<1>10. CASE ~onHold
  <2>1. c.result = "deleted"
    BY <1>3 DEF CallShape, IdleWorker
  <2>2. CASE c.result = "deleted"
    <3>1. /\ c.request \in DOMAIN requests /\ requests[c.request].subject = c.subject
          /\ c.since \subseteq DOMAIN holdRows /\ c.had \subseteq written
          /\ c.swept => Swept(c)
      BY <1>3, <2>2 DEF CallSound
    <3>2. n.sure => Unheld(n.since, n.subject)
      <4> SUFFICES ASSUME answered, NEW h \in c.since,
                          holdRows[h] = "active", Covers(h, c.subject)
                   PROVE  FALSE
        BY <1>5 DEF Unheld
      <4>1. h \in DOMAIN holdRows /\ ~IsOnHold(c.subject)
        BY <1>10, <3>1
      <4> QED BY <4>1 DEF IsOnHold, Covers
    <3>3. n.swept => Swept(n)
      BY <1>5, <1>6, <1>10, <3>1 DEF Swept
    <3> HIDE DEF c, m
    <3>4. CallSound(n)
      BY <1>5, <1>6, <3>1, <3>2, <3>3 DEF CallSound
    <3>5. CallSound(n)'
      BY <1>8, <3>4, CallStays
    <3> QED BY <1>0, <1>5, <1>7, <1>8, <3>5, CallMoves
  <2> QED BY <2>1, <2>2
<1> QED BY <1>9, <1>10

\* The idle worker is a sound call.
LEMMA IdleShape == CallShape(IdleWorker) /\ IdleWorker.pc = "idle"
BY DEF CallShape, IdleWorker

\* The request is updated with what the call found, or the update is lost.
LEMMA UpdateInv ==
    ASSUME SubjectShapes, ErasureSound, NEW w \in Workers, UpdateRequest(w)
    PROVE  SubjectShapes' /\ ErasureSound'
<1> DEFINE c == call[w]
<1>0. /\ c.pc = "update"
      /\ call' = [call EXCEPT ![w] = IdleWorker]
      /\ holdRows' = holdRows /\ written' = written /\ wiring' = wiring /\ keys' = keys
  BY DEF UpdateRequest
<1>1. PICK n : n = IdleWorker
  OBVIOUS
<1>2. call' = [call EXCEPT ![w] = n] /\ CallShape(n) /\ CallSound(n)'
  <2>1. CallShape(n) /\ n.pc = "idle"
    BY <1>1, IdleShape
  <2> QED BY <1>0, <1>1, <2>1, OtherCall
<1>3. CASE requests' = requests
  <2>1. Onwards
    BY <1>0, <1>3, QuietOnwards
  <2> QED BY <1>0, <1>2, <1>3, <2>1, CallMoves
<1>4. CASE /\ c.request \in DOMAIN requests
           /\ requests' # requests
  <2> DEFINE r == c.request
             p == requests[r]
             q == [p EXCEPT !.status = "fulfilled", !.result = c.result, !.since = c.since,
                            !.sure = c.sure, !.had = IF c.swept THEN c.had ELSE {}]
  <2>1. requests' = [requests EXCEPT ![r] = q]
    BY <1>4 DEF UpdateRequest
  <2>2. RowShape(p) /\ CallSound(c)
    BY <1>4 DEF SubjectShapes, ErasureSound
  <2>3. /\ RowShape(q) /\ q.result = c.result /\ q.since = c.since /\ q.sure = c.sure
        /\ q.had = (IF c.swept THEN c.had ELSE {}) /\ q.subject = p.subject
    <3> HIDE DEF p, c
    <3> QED BY <2>2 DEF RowShape
  <2>4. requests' = [x \in DOMAIN requests \union {r} |-> IF x = r THEN q ELSE requests[x]]
    BY <1>4, <2>1 DEF SubjectShapes
  <2> HIDE DEF q
  <2>5. RowSound(q)
    <3> SUFFICES ASSUME c.result = "deleted"
                 PROVE  /\ q.since \subseteq DOMAIN holdRows
                        /\ q.had \subseteq written
                        /\ q.sure => Unheld(q.since, q.subject)
                        /\ q.had \cap keys = {}
      BY <2>3 DEF RowSound
    <3>1. /\ requests[c.request].subject = c.subject
          /\ c.since \subseteq DOMAIN holdRows /\ c.had \subseteq written
          /\ c.sure => Unheld(c.since, c.subject)
          /\ c.swept => c.had \cap keys = {}
      BY <1>0, <2>2 DEF CallSound, Swept
    <3> QED BY <2>3, <3>1
  <2>6. /\ Onwards
        /\ requests' = [x \in DOMAIN requests' |-> requests'[x]]
        /\ \A x \in DOMAIN requests' : RowShape(requests[x])' /\ RowSound(requests[x])'
    <3>1. DOMAIN requests' = DOMAIN requests \union {r} /\ q.subject = requests[r].subject
      BY <1>4, <2>3, <2>4
    <3> QED BY <1>0, <2>3, <2>4, <2>5, <3>1, RowMoves
  <2>7. ASSUME NEW v \in Workers PROVE CallShape(call[v])' /\ CallSound(call[v])'
    <3>1. CASE v = w
      <4>1. call'[v] = n
        BY <1>2, <3>1 DEF SubjectShapes
      <4> QED BY <1>2, <4>1 DEF CallShape, IdleWorker
    <3>2. CASE v # w
      <4>1. call'[v] = call[v] /\ CallShape(call'[v])
        BY <1>2, <3>2 DEF SubjectShapes
      <4> QED BY <2>6, <4>1, CallsStay DEF CallShape, IdleWorker
    <3> QED BY <3>1, <3>2
  <2>8. SubjectShapes'
    BY <1>0, <1>2, <2>6, <2>7 DEF SubjectShapes
  <2> QED BY <2>6, <2>7, <2>8 DEF ErasureSound
<1>5. CASE c.request \notin DOMAIN requests
  <2>1. requests' = requests
    <3>1. PICK ok \in BOOLEAN : requests' = IF ~ok THEN requests
             ELSE [requests EXCEPT ![c.request] =
                     [@ EXCEPT !.status = "fulfilled", !.result = c.result,
                               !.since = c.since, !.sure = c.sure,
                               !.had = IF c.swept THEN c.had ELSE {}]]
      BY DEF UpdateRequest
    <3> HIDE DEF c
    <3> QED BY <1>5, <3>1 DEF SubjectShapes
  <2> QED BY <1>3, <2>1
<1> QED BY <1>3, <1>4, <1>5

\* A call moves to a step at which it is not about to answer deleted, or
\* still is what it was, and nothing the requests refer to changes.
LEMMA QuietMove ==
    ASSUME SubjectShapes, ErasureSound, NEW w \in Workers, NEW n,
           call' = [call EXCEPT ![w] = n], CallShape(n),
           n.pc = "idle" \/ n.result # "deleted",
           requests' = requests, holdRows' = holdRows, written' = written,
           wiring' = wiring, keys' \subseteq keys
    PROVE  SubjectShapes' /\ ErasureSound'
<1>1. Onwards
  BY QuietOnwards
<1>2. CallSound(n)'
  BY OtherCall
<1> QED BY <1>1, <1>2, CallMoves

\* An erasure or a restriction is asked for without a request.
LEMMA StartInv ==
    ASSUME SubjectShapes, ErasureSound, NEW w \in Workers, NEW s,
           EraseNow(w, s) \/ ApplyRestriction(w, s) \/ RemoveRestriction(w, s)
    PROVE  SubjectShapes' /\ ErasureSound'
<1>1. PICK pc \in {"scan1", "probe", "deleteRow"} :
         call' = [call EXCEPT ![w] =
            [pc |-> pc, request |-> "none", subject |-> s, result |-> "none",
             since |-> {}, had |-> {}, sure |-> FALSE, swept |-> FALSE]]
  BY DEF EraseNow, ApplyRestriction, RemoveRestriction, StartRestriction
<1>2. /\ requests' = requests /\ holdRows' = holdRows /\ written' = written
      /\ wiring' = wiring /\ keys' \subseteq keys
  BY DEF EraseNow, ApplyRestriction, RemoveRestriction, StartRestriction
<1>3. PICK n : n = [pc |-> pc, request |-> "none", subject |-> s, result |-> "none",
                    since |-> {}, had |-> {}, sure |-> FALSE, swept |-> FALSE]
  OBVIOUS
<1>4. call' = [call EXCEPT ![w] = n] /\ CallShape(n) /\ n.result # "deleted"
  BY <1>1, <1>3 DEF CallShape
<1> QED BY <1>2, <1>4, QuietMove

\* A call goes on to another step, or ends.
LEMMA StepShape ==
    ASSUME NEW c, NEW pc, CallShape(c), c.pc # "idle", pc \notin {"idle", "hold"}
    PROVE  /\ CallShape([c EXCEPT !.pc = pc])
           /\ [c EXCEPT !.pc = pc].pc = pc
           /\ [c EXCEPT !.pc = pc].result = c.result
           /\ [c EXCEPT !.pc = pc].subject = c.subject
BY DEF CallShape, IdleWorker

\* The steps of a restriction.
LEMMA RestrictStepInv ==
    ASSUME SubjectShapes, ErasureSound, NEW w \in Workers,
           \/ ProbeCache(w) \/ ProbeRow(w) \/ InsertRestriction(w)
           \/ CacheRestriction(w) \/ DeleteRow(w) \/ DropCache(w)
    PROVE  SubjectShapes' /\ ErasureSound'
<1> DEFINE c == call[w]
<1>1. /\ c.pc \in {"probe", "probeRow", "insert", "cache", "deleteRow", "dropCache"}
      /\ requests' = requests /\ holdRows' = holdRows /\ written' = written
      /\ wiring' = wiring /\ keys' \subseteq keys
  BY DEF ProbeCache, ProbeRow, InsertRestriction, CacheRestriction, DeleteRow, DropCache
<1>2. CallShape(c) /\ CallSound(c)
  BY DEF SubjectShapes, ErasureSound
<1>3. c.pc # "idle" /\ c.result # "deleted"
  BY <1>1, <1>2 DEF CallSound
<1>4. PICK pc \in {"update", "probeRow", "insert", "cache", "dropCache"} :
         \/ call' = [call EXCEPT ![w] = IdleWorker]
         \/ call' = [call EXCEPT ![w] = [c EXCEPT !.pc = pc]]
  <2>1. WhenDone(w) = IdleWorker \/ WhenDone(w) = [c EXCEPT !.pc = "update"]
    BY DEF WhenDone
  <2>2. CASE ProbeCache(w) \/ ProbeRow(w) \/ CacheRestriction(w)
    BY <2>1, <2>2 DEF ProbeCache, ProbeRow, CacheRestriction
  <2>3. CASE InsertRestriction(w) \/ DeleteRow(w) \/ DropCache(w)
    BY <2>3 DEF InsertRestriction, DeleteRow, DropCache
  <2> QED BY <2>2, <2>3
<1>5. CASE call' = [call EXCEPT ![w] = IdleWorker]
  BY <1>1, <1>5, IdleShape, QuietMove
<1>6. CASE call' = [call EXCEPT ![w] = [c EXCEPT !.pc = pc]]
  <2>1. PICK n : n = [c EXCEPT !.pc = pc]
    OBVIOUS
  <2> HIDE DEF c
  <2>2. CallShape(n) /\ n.result # "deleted"
    BY <1>2, <1>3, <1>4, <2>1, StepShape
  <2>3. call' = [call EXCEPT ![w] = n]
    BY <1>6, <2>1
  <2> QED BY <1>1, <2>2, <2>3, QuietMove
<1> QED BY <1>4, <1>5, <1>6

\* A call on its way to answer deleted goes from one step to a later one.
LEMMA ScanMove ==
    ASSUME SubjectShapes, ErasureSound, NEW w \in Workers, NEW n,
           call' = [call EXCEPT ![w] = n], CallShape(n), n.pc \in {"scan2", "record", "update"},
           call[w].pc \in {"scan1", "scan2", "record"},
           n.request = call[w].request, n.subject = call[w].subject,
           n.result = call[w].result, n.since = call[w].since, n.had = call[w].had,
           n.sure = call[w].sure, n.swept => call[w].swept,
           n.swept /\ n.pc = "scan2" => \A k \in n.had \cap keys' : k.pattern # 1,
           n.swept /\ n.pc \in {"record", "update"} /\ Swept(call[w]) => n.had \cap keys' = {},
           requests' = requests, holdRows' = holdRows, written' = written,
           wiring' = wiring, keys' \subseteq keys
    PROVE  SubjectShapes' /\ ErasureSound'
<1> DEFINE c == call[w]
<1>0. CallSound(c)
  BY DEF ErasureSound
<1>1. Onwards
  BY QuietOnwards
<1>2. CASE n.result # "deleted"
  BY <1>2, QuietMove
<1>3. CASE n.result = "deleted"
  <2>1. /\ c.pc \in {"scan1", "scan2", "record"}
        /\ c.request \in DOMAIN requests /\ requests[c.request].subject = c.subject
        /\ c.since \subseteq DOMAIN holdRows /\ c.had \subseteq written
        /\ c.sure => Unheld(c.since, c.subject)
        /\ c.swept => Swept(c)
    BY <1>0, <1>3 DEF CallSound
  <2>2. n.swept => Swept(n)'
    BY <2>1 DEF Swept
  <2>3. n.sure => Unheld(n.since, n.subject)'
    BY <2>1 DEF Unheld, Covers
  <2>4. CallSound(n)'
    BY <2>1, <2>2, <2>3 DEF CallSound
  <2> QED BY <1>1, <2>4, CallMoves
<1> QED BY <1>2, <1>3

\* A call goes on with its notes.
LEMMA StepKeeps ==
    ASSUME NEW c, NEW pc, CallShape(c), c.pc # "idle", pc \notin {"idle", "hold"}
    PROVE  LET n == [c EXCEPT !.pc = pc] IN
           /\ CallShape(n) /\ n.pc = pc /\ n.request = c.request /\ n.subject = c.subject
           /\ n.result = c.result /\ n.since = c.since /\ n.had = c.had /\ n.sure = c.sure
           /\ n.swept = c.swept
BY DEF CallShape, IdleWorker

\* A call goes on after a failed scan.
LEMMA FailKeeps ==
    ASSUME NEW c, CallShape(c), c.pc # "idle"
    PROVE  LET n == [c EXCEPT !.pc = "record", !.swept = FALSE] IN
           /\ CallShape(n) /\ n.pc = "record" /\ n.request = c.request /\ n.subject = c.subject
           /\ n.result = c.result /\ n.since = c.since /\ n.had = c.had /\ n.sure = c.sure
BY DEF CallShape, IdleWorker

\* One pattern of the subject's keys is scanned for and deleted.
LEMMA ScanInv ==
    ASSUME SubjectShapes, ErasureSound, NEW w \in Workers, ScanAndDelete(w)
    PROVE  SubjectShapes' /\ ErasureSound'
<1> DEFINE c == call[w]
           pattern == IF c.pc = "scan1" THEN 1 ELSE 2
<1>0. /\ c.pc \in {"scan1", "scan2"}
      /\ requests' = requests /\ holdRows' = holdRows /\ written' = written /\ wiring' = wiring
      /\ keys' = keys \ {k \in keys : k.subject = c.subject /\ k.pattern = pattern}
      /\ call' = [call EXCEPT ![w] = IF NextScan(w) = "idle" THEN IdleWorker
                                     ELSE [c EXCEPT !.pc = NextScan(w)]]
  BY DEF ScanAndDelete
<1>1. CallShape(c) /\ CallSound(c) /\ keys \subseteq Keys
  BY DEF SubjectShapes, ErasureSound
<1>2. /\ c.pc = "scan1" => NextScan(w) = "scan2"
      /\ c.pc = "scan2" => NextScan(w) \in {"idle", "record"}
  BY DEF NextScan
<1>3. CASE NextScan(w) = "idle"
  <2>1. call' = [call EXCEPT ![w] = IdleWorker]
    BY <1>0, <1>3
  <2> QED BY <1>0, <2>1, IdleShape, QuietMove
<1>4. CASE NextScan(w) # "idle"
  <2>1. PICK n : n = [c EXCEPT !.pc = NextScan(w)]
    OBVIOUS
  <2>2. call' = [call EXCEPT ![w] = n]
    BY <1>0, <1>4, <2>1
  <2>3. PICK pc : pc = NextScan(w)
    OBVIOUS
  <2>4. pc \in {"scan2", "record"} /\ (pc = "scan2" <=> c.pc = "scan1")
    BY <1>0, <1>2, <1>4, <2>3
  <2> HIDE DEF c
  <2>5. /\ CallShape(n) /\ n.pc = pc /\ n.request = c.request /\ n.subject = c.subject
        /\ n.result = c.result /\ n.since = c.since /\ n.had = c.had /\ n.sure = c.sure
        /\ n.swept => c.swept
    <3>1. c.pc # "idle" /\ pc \notin {"idle", "hold"} /\ n = [c EXCEPT !.pc = pc]
      BY <1>0, <2>1, <2>3, <2>4
    <3> QED BY <1>1, <3>1, StepKeeps
  <2>6. keys' \subseteq keys
    BY <1>0
  <2>7. CASE n.result # "deleted"
    BY <1>0, <2>2, <2>5, <2>6, <2>7, QuietMove
  <2>8. CASE n.result = "deleted"
    <3>1. c.swept => \A k \in c.had : k.subject = c.subject
      BY <1>0, <1>1, <2>5, <2>8 DEF CallSound, Swept
    <3>2. n.swept /\ n.pc = "scan2" => \A k \in n.had \cap keys' : k.pattern # 1
      BY <1>0, <2>4, <2>5, <3>1
    <3>3. n.swept /\ n.pc \in {"record", "update"} /\ Swept(c) => n.had \cap keys' = {}
      <4> SUFFICES ASSUME n.swept, n.pc \in {"record", "update"}, Swept(c),
                          NEW k \in n.had \cap keys'
                   PROVE  FALSE
        OBVIOUS
      <4>1. c.pc = "scan2" /\ pattern = 2
        BY <1>0, <2>4, <2>5
      <4>2. k.pattern # 1 /\ k.pattern \in 1 .. 2
        BY <1>0, <1>1, <2>5, <4>1, SubjectAssumption DEF Swept
      <4>3. k.pattern = 2
        BY <4>2
      <4> HIDE DEF pattern
      <4> QED BY <1>0, <2>5, <3>1, <4>1, <4>3
    <3> QED BY <1>0, <2>2, <2>4, <2>5, <2>6, <3>2, <3>3, ScanMove DEF c
  <2> QED BY <2>7, <2>8
<1> QED BY <1>3, <1>4

\* A scan fails, or the erasure is recorded.
LEMMA ScanFailsInv ==
    ASSUME SubjectShapes, ErasureSound, NEW w \in Workers, ScanFails(w) \/ RecordErasure(w)
    PROVE  SubjectShapes' /\ ErasureSound'
<1> DEFINE c == call[w]
<1>0. /\ c.pc \in {"scan1", "scan2", "record"}
      /\ requests' = requests /\ holdRows' = holdRows /\ written' = written /\ wiring' = wiring
      /\ keys' = keys
  BY DEF ScanFails, RecordErasure
<1>1. CallShape(c)
  BY DEF SubjectShapes
<1>2. CASE call' = [call EXCEPT ![w] = IdleWorker]
  BY <1>0, <1>2, IdleShape, QuietMove
<1>3. CASE ScanFails(w) /\ call' = [call EXCEPT ![w] = [c EXCEPT !.pc = "record", !.swept = FALSE]]
  <2>1. PICK n : n = [c EXCEPT !.pc = "record", !.swept = FALSE]
    OBVIOUS
  <2>2. call' = [call EXCEPT ![w] = n] /\ n.swept = FALSE
    BY <1>1, <1>0, <1>3, <2>1 DEF CallShape, IdleWorker
  <2> HIDE DEF c
  <2>3. /\ CallShape(n) /\ n.pc = "record" /\ n.request = c.request /\ n.subject = c.subject
        /\ n.result = c.result /\ n.since = c.since /\ n.had = c.had /\ n.sure = c.sure
    BY <1>0, <1>1, <2>1, FailKeeps
  <2> QED BY <1>0, <2>2, <2>3, ScanMove DEF c
<1>4. CASE RecordErasure(w)
  <2>1. PICK n : n = [c EXCEPT !.pc = "update"]
    OBVIOUS
  <2>2. call' = [call EXCEPT ![w] = n] /\ c.pc = "record"
    BY <1>4, <2>1 DEF RecordErasure
  <2> HIDE DEF c
  <2>3. /\ CallShape(n) /\ n.pc = "update" /\ n.request = c.request /\ n.subject = c.subject
        /\ n.result = c.result /\ n.since = c.since /\ n.had = c.had /\ n.sure = c.sure
        /\ n.swept => c.swept
    BY <1>0, <1>1, <2>1, StepKeeps
  <2>4. Swept(c) => n.had \cap keys' = {}
    BY <1>0, <2>2, <2>3 DEF Swept
  <2> QED BY <1>0, <2>2, <2>3, <2>4, ScanMove DEF c
<1> QED BY <1>2, <1>3, <1>4 DEF ScanFails

-----------------------------------------------------------------------------
(* Restrictions: one call at a time on a subject that is not unsure. *)

\* Nobody moves.
LEMMA TouchStays ==
    ASSUME RestrictionSound, call' = call, unsure' = unsure, restricted' = restricted,
           cached' \subseteq cached
    PROVE  RestrictionSound'
BY DEF RestrictionSound, TouchSound, Touches

\* A worker moves that was not within a restriction call and does not enter one.
LEMMA TouchElsewhere ==
    ASSUME SubjectShapes, RestrictionSound, NEW w \in Workers, NEW n,
           call' = [call EXCEPT ![w] = n],
           call[w].pc \in {"idle", "hold", "scan1", "scan2", "record", "update"},
           n.pc \in {"idle", "hold", "scan1", "scan2", "record", "update"},
           unsure' = unsure, restricted' = restricted, cached' = cached
    PROVE  RestrictionSound'
<1>1. \A v \in Workers : call'[v] = IF v = w THEN n ELSE call[v]
  BY DEF SubjectShapes
<1> SUFFICES ASSUME NEW s \in Subjects PROVE TouchSound(s)'
  BY DEF RestrictionSound
<1>2. TouchSound(s)
  BY DEF RestrictionSound
<1>3. \A v \in Workers : Touches(v, s)' <=> Touches(v, s)
  BY <1>1 DEF Touches
<1>4. \A v \in Workers : Touches(v, s) => call'[v] = call[v]
  BY <1>1 DEF Touches
<1> QED BY <1>2, <1>3, <1>4 DEF TouchSound

\* A worker enters a restriction call.
LEMMA TouchBegins ==
    ASSUME SubjectShapes, RestrictionSound, NEW w \in Workers, NEW n,
           call' = [call EXCEPT ![w] = n], call[w].pc = "idle",
           n.pc \in {"probe", "deleteRow"},
           unsure' = IF Overlaps(w, n.subject) THEN unsure \union {n.subject} ELSE unsure,
           restricted' = restricted, cached' = cached
    PROVE  RestrictionSound'
<1>1. \A v \in Workers : call'[v] = IF v = w THEN n ELSE call[v]
  BY DEF SubjectShapes
<1> SUFFICES ASSUME NEW s \in Subjects, s \notin unsure' PROVE TouchSound(s)'
  BY DEF RestrictionSound, TouchSound
<1>2. TouchSound(s) /\ s \notin unsure
  BY DEF RestrictionSound
<1>3. n.subject = s => \A v \in Workers \ {w} : ~Touches(v, s)
  BY DEF Overlaps, Touches, Busy
<1>4. \A v \in Workers \ {w} : (Touches(v, s)' <=> Touches(v, s)) /\ call'[v] = call[v]
  BY <1>1 DEF Touches
<1>5. /\ ~Touches(w, s) /\ (Touches(w, s)' <=> n.subject = s)
      /\ call'[w].pc \notin {"cache", "dropCache"}
  BY <1>1 DEF Touches
<1> QED BY <1>2, <1>3, <1>4, <1>5 DEF TouchSound

\* A worker takes a step within a restriction call.
LEMMA TouchSteps ==
    ASSUME SubjectShapes, RestrictionSound, NEW w \in Workers, NEW n,
           call' = [call EXCEPT ![w] = n],
           call[w].pc \in {"probe", "probeRow", "insert", "cache", "deleteRow", "dropCache"},
           n.pc \in {"idle", "update"} \/ n.subject = call[w].subject,
           n.pc = "cache" => call[w].subject \in restricted',
           \A s \in Subjects : s # call[w].subject =>
              /\ s \in unsure <=> s \in unsure'
              /\ s \in restricted <=> s \in restricted'
              /\ s \in cached <=> s \in cached',
           unsure \subseteq unsure',
           LET s == call[w].subject IN
              s \notin unsure' /\ s \in cached' /\
              (s \in cached => s \in restricted \/ call[w].pc = "dropCache") /\
              (call[w].pc = "cache" => s \in restricted)
                 => s \in restricted' \/ n.pc = "dropCache"
    PROVE  RestrictionSound'
<1>1. \A v \in Workers : call'[v] = IF v = w THEN n ELSE call[v]
  BY DEF SubjectShapes
<1> SUFFICES ASSUME NEW s \in Subjects, s \notin unsure' PROVE TouchSound(s)'
  BY DEF RestrictionSound, TouchSound
<1>2. TouchSound(s) /\ s \notin unsure
  BY DEF RestrictionSound
<1>3. \A v \in Workers \ {w} : (Touches(v, s)' <=> Touches(v, s)) /\ call'[v] = call[v]
  BY <1>1 DEF Touches
<1>4. CASE s # call[w].subject
  <2>1. ~Touches(w, s) /\ ~Touches(w, s)'
    BY <1>1, <1>4 DEF Touches
  <2> QED BY <1>2, <1>3, <1>4, <2>1 DEF TouchSound
<1>5. CASE s = call[w].subject
  <2>1. Touches(w, s)
    BY <1>5 DEF Touches
  <2>2. \A v \in Workers \ {w} : ~Touches(v, s) /\ ~Touches(v, s)'
    BY <1>2, <1>3, <2>1 DEF TouchSound
  <2>3. /\ s \in cached => s \in restricted \/ call[w].pc = "dropCache"
        /\ call[w].pc = "cache" => s \in restricted
    BY <1>2, <2>1, <2>2 DEF TouchSound
  <2>4. s \in cached' => s \in restricted' \/ n.pc = "dropCache"
    BY <1>5, <2>3
  <2>5. n.pc = "dropCache" => Touches(w, s)'
    BY <1>1, <1>5 DEF Touches
  <2>6. n.pc = "cache" => s \in restricted'
    BY <1>5
  <2> QED BY <1>1, <2>2, <2>4, <2>5, <2>6 DEF TouchSound
<1> QED BY <1>4, <1>5

\* The steps of restriction calls keep to one call at a time, the row before
\* the key on the way in and the row before the key on the way out.
LEMMA RestrictStepSound ==
    ASSUME SubjectShapes, RestrictionSound, NEW w \in Workers,
           \/ ProbeCache(w) \/ ProbeRow(w) \/ InsertRestriction(w)
           \/ CacheRestriction(w) \/ DeleteRow(w) \/ DropCache(w)
    PROVE  RestrictionSound'
<1> DEFINE c == call[w]
           s == c.subject
<1>1. CallShape(c)
  BY DEF SubjectShapes
<1>2. /\ WhenDone(w) = IdleWorker \/ WhenDone(w) = [c EXCEPT !.pc = "update"]
      /\ IdleWorker.pc = "idle"
  BY DEF WhenDone, IdleWorker
<1>3. CASE ProbeCache(w) \/ ProbeRow(w) \/ CacheRestriction(w)
  <2>1. c.pc \in {"probe", "probeRow", "cache"}
    BY <1>3 DEF ProbeCache, ProbeRow, CacheRestriction
  <2>2. PICK pc \in {"update", "probeRow", "insert"} :
           \/ call' = [call EXCEPT ![w] = IdleWorker]
           \/ call' = [call EXCEPT ![w] = [c EXCEPT !.pc = pc]]
    BY <1>2, <1>3 DEF ProbeCache, ProbeRow, CacheRestriction
  <2>3. PICK n : /\ call' = [call EXCEPT ![w] = n]
                 /\ n = IdleWorker \/ n = [c EXCEPT !.pc = pc]
    BY <2>2
  <2> HIDE DEF c
  <2>4. n.pc \in {"idle", "update"} \/ (n.pc \in {"probeRow", "insert"} /\ n.subject = c.subject)
    <3>1. CASE n = IdleWorker
      BY <1>2, <3>1
    <3>2. CASE n = [c EXCEPT !.pc = pc]
      BY <1>1, <2>1, <2>2, <3>2 DEF CallShape, IdleWorker
    <3> QED BY <2>3, <3>1, <3>2
  <2>5. /\ unsure' = unsure /\ restricted' = restricted
        /\ cached' = cached \/ (c.pc = "cache" /\ cached' = cached \union {s})
    BY <1>3 DEF ProbeCache, ProbeRow, CacheRestriction, c
  <2>6. /\ n.pc # "cache" /\ unsure \subseteq unsure'
        /\ n.pc \in {"idle", "update"} \/ n.subject = c.subject
        /\ c.pc \in {"probe", "probeRow", "insert", "cache", "deleteRow", "dropCache"}
    BY <2>1, <2>4, <2>5
  <2>7. \A t \in Subjects : t # c.subject =>
              /\ t \in unsure <=> t \in unsure'
              /\ t \in restricted <=> t \in restricted'
              /\ t \in cached <=> t \in cached'
    BY <2>5
  <2>8. s \notin unsure' /\ s \in cached' /\
              (s \in cached => s \in restricted \/ c.pc = "dropCache") /\
              (c.pc = "cache" => s \in restricted)
                 => s \in restricted' \/ n.pc = "dropCache"
    BY <2>1, <2>5
  <2> QED BY <2>3, <2>6, <2>7, <2>8, TouchSteps DEF c
<1>4. CASE InsertRestriction(w)
  <2>1. PICK n : /\ call' = [call EXCEPT ![w] = n]
                 /\ \/ n = [c EXCEPT !.pc = "cache"] /\ restricted' = restricted \union {s}
                    \/ n = IdleWorker /\ restricted' = restricted
    BY <1>4 DEF InsertRestriction
  <2>2. c.pc = "insert" /\ unsure' = unsure /\ cached' = cached
    BY <1>4 DEF InsertRestriction
  <2> HIDE DEF c
  <2>3. \/ n.pc = "idle" /\ restricted' = restricted
        \/ n.pc = "cache" /\ n.subject = c.subject /\ restricted' = restricted \union {s}
    BY <1>1, <1>2, <2>1, <2>2 DEF CallShape, IdleWorker
  <2> QED BY <2>1, <2>2, <2>3, TouchSteps DEF c
<1>5. CASE DeleteRow(w)
  <2>1. PICK n : n = [c EXCEPT !.pc = "dropCache"]
    OBVIOUS
  <2>2. /\ c.pc = "deleteRow" /\ unsure' = unsure /\ cached' = cached
        /\ restricted' = restricted \/ restricted' = restricted \ {s}
        /\ call' = [call EXCEPT ![w] = n]
    BY <1>5, <2>1 DEF DeleteRow
  <2> HIDE DEF c
  <2>3. n.pc = "dropCache" /\ n.subject = c.subject
    BY <1>1, <2>1, <2>2 DEF CallShape, IdleWorker
  <2> QED BY <2>2, <2>3, TouchSteps DEF c
<1>6. CASE DropCache(w)
  <2>1. /\ c.pc = "dropCache" /\ restricted' = restricted
        /\ call' = [call EXCEPT ![w] = IdleWorker]
        /\ \/ cached' = cached \ {s} /\ unsure' = unsure
           \/ unsure' = unsure \union {s} /\ cached' = cached
    BY <1>6 DEF DropCache
  <2> HIDE DEF c
  <2>2. PICK n : n = IdleWorker
    OBVIOUS
  <2> QED BY <1>2, <2>1, <2>2, TouchSteps DEF c
<1> QED BY <1>3, <1>4, <1>5, <1>6

\* The other calls enter a restriction call, or none.
LEMMA OtherCallSound ==
    ASSUME SubjectShapes, RestrictionSound, NEW w \in Workers, NEW r, NEW s,
           \/ Fulfil(w, r) \/ CheckHold(w) \/ UpdateRequest(w) \/ EraseNow(w, s)
           \/ ScanAndDelete(w) \/ ScanFails(w) \/ RecordErasure(w)
           \/ ApplyRestriction(w, s) \/ RemoveRestriction(w, s)
    PROVE  RestrictionSound'
<1> DEFINE c == call[w]
<1>1. CallShape(c)
  BY DEF SubjectShapes
<1>2. CASE ApplyRestriction(w, s) \/ RemoveRestriction(w, s)
  <2>0. PICK pc \in {"probe", "deleteRow"} : StartRestriction(w, s, pc)
    BY <1>2 DEF ApplyRestriction, RemoveRestriction
  <2> DEFINE n == [pc |-> pc, request |-> "none", subject |-> s, result |-> "none",
                   since |-> {}, had |-> {}, sure |-> FALSE, swept |-> FALSE]
  <2>1. call' = [call EXCEPT ![w] = n] /\ n.pc \in {"probe", "deleteRow"} /\ n.subject = s
    BY <2>0 DEF StartRestriction
  <2> HIDE DEF n
  <2>2. /\ c.pc = "idle" /\ restricted' = restricted /\ cached' = cached
        /\ unsure' = IF Overlaps(w, s) THEN unsure \union {s} ELSE unsure
    BY <1>2 DEF ApplyRestriction, RemoveRestriction, StartRestriction, Busy
  <2> QED BY <2>1, <2>2, TouchBegins
<1>3. CASE Fulfil(w, r)
  <2> DEFINE q == requests[r]
             pc == CASE q.type = "erasure" /\ "hold" \in wiring -> "hold"
                     [] q.type = "erasure" /\ "hold" \notin wiring -> AfterHold(FALSE)
                     [] q.type = "restriction" /\ "restriction" \in wiring -> "probe"
                     [] OTHER -> "update"
  <2>1. pc \in {"hold", "scan1", "update", "probe"}
    BY DEF AfterHold
  <2> DEFINE n == [pc |-> pc, request |-> r, subject |-> q.subject,
                   result |-> CASE q.type = "erasure" -> "deleted"
                                [] q.type = "restriction" -> "processing_restricted"
                                [] OTHER -> "active",
                   since |-> {h \in DOMAIN holdRows : holdRows[h] = "active"},
                   had |-> {k \in keys : k.subject = q.subject},
                   sure |-> "hold" \in wiring, swept |-> "erasure" \in wiring]
  <2>2. call' = [call EXCEPT ![w] = n] /\ n.pc = pc /\ n.subject = q.subject
    <3>1. call' = [call EXCEPT ![w] = n]
      BY <1>3 DEF Fulfil
    <3> HIDE DEF pc
    <3> QED BY <3>1
  <2>3. /\ c.pc = "idle" /\ restricted' = restricted /\ cached' = cached
        /\ unsure' = IF pc = "probe" /\ Overlaps(w, q.subject)
                     THEN unsure \union {q.subject} ELSE unsure
    BY <1>3 DEF Fulfil, Busy
  <2> HIDE DEF pc, q, n
  <2>4. CASE pc = "probe"
    BY <2>2, <2>3, <2>4, TouchBegins
  <2>5. CASE pc # "probe"
    BY <2>1, <2>2, <2>3, <2>5, TouchElsewhere
  <2> QED BY <2>4, <2>5
<1>4. CASE EraseNow(w, s)
  <2> DEFINE n == [pc |-> "scan1", request |-> "none", subject |-> s, result |-> "none",
                   since |-> {}, had |-> {}, sure |-> FALSE, swept |-> FALSE]
  <2>1. call' = [call EXCEPT ![w] = n] /\ n.pc = "scan1"
    BY <1>4 DEF EraseNow
  <2>2. c.pc = "idle" /\ restricted' = restricted /\ cached' = cached /\ unsure' = unsure
    BY <1>4, SMTT(40) DEF EraseNow, Busy
  <2> HIDE DEF n
  <2> QED BY <2>1, <2>2, TouchElsewhere
<1>5. CASE \/ CheckHold(w) \/ UpdateRequest(w) \/ ScanAndDelete(w) \/ ScanFails(w)
           \/ RecordErasure(w)
  <2>1. /\ c.pc \in {"hold", "update", "scan1", "scan2", "record"}
        /\ restricted' = restricted /\ cached' = cached /\ unsure' = unsure
    BY <1>5 DEF CheckHold, UpdateRequest, ScanAndDelete, ScanFails, RecordErasure
  <2>2. DOMAIN c = {"pc", "request", "subject", "result", "since", "had", "sure", "swept"}
    BY <1>1, <2>1 DEF CallShape, IdleWorker
  <2>3. \E n : /\ call' = [call EXCEPT ![w] = n]
               /\ n.pc \in {"idle", "update", "scan1", "scan2", "record"}
    <3>1. CASE CheckHold(w)
      <4>1. PICK answered \in BOOLEAN :
               call' = [call EXCEPT ![w].pc = AfterHold(answered /\ IsOnHold(call[w].subject)),
                              ![w].sure = answered,
                              ![w].result = IF answered /\ IsOnHold(call[w].subject)
                                            THEN "legal_hold" ELSE "deleted"]
        BY <3>1 DEF CheckHold
      <4>2. PICK pc : pc = AfterHold(answered /\ IsOnHold(call[w].subject))
        OBVIOUS
      <4>3. pc \in {"update", "scan1"}
        BY <4>2 DEF AfterHold
      <4> DEFINE n == [c EXCEPT !.pc = pc, !.sure = answered,
                          !.result = IF answered /\ IsOnHold(call[w].subject)
                                     THEN "legal_hold" ELSE "deleted"]
      <4>4. call' = [call EXCEPT ![w] = n]
        BY <4>1, <4>2 DEF SubjectShapes
      <4>5. n.pc = pc
        BY <2>2
      <4> HIDE DEF n
      <4> QED BY <4>3, <4>4, <4>5
    <3>2. CASE UpdateRequest(w)
      BY <3>2, IdleShape DEF UpdateRequest
    <3>3. CASE ScanAndDelete(w)
      <4>1. call' = [call EXCEPT ![w] = IF NextScan(w) = "idle" THEN IdleWorker
                                        ELSE [c EXCEPT !.pc = NextScan(w)]]
        BY <3>3 DEF ScanAndDelete
      <4>2. NextScan(w) \in {"scan2", "idle", "record"}
        BY DEF NextScan
      <4>3. PICK pc : pc = NextScan(w)
        OBVIOUS
      <4>4. [c EXCEPT !.pc = pc].pc = pc /\ IdleWorker.pc = "idle"
        BY <2>2 DEF IdleWorker
      <4> HIDE DEF c
      <4> QED BY <4>1, <4>2, <4>3, <4>4
    <3>4. CASE ScanFails(w)
      <4>1. [c EXCEPT !.pc = "record", !.swept = FALSE].pc = "record" /\ IdleWorker.pc = "idle"
        BY <2>2 DEF IdleWorker
      <4>2. \/ call' = [call EXCEPT ![w] = IdleWorker]
            \/ call' = [call EXCEPT ![w] = [c EXCEPT !.pc = "record", !.swept = FALSE]]
        BY <3>4 DEF ScanFails
      <4> HIDE DEF c
      <4> QED BY <4>1, <4>2
    <3>5. CASE RecordErasure(w)
      <4>1. [c EXCEPT !.pc = "update"].pc = "update"
        BY <2>2
      <4>2. call' = [call EXCEPT ![w] = [c EXCEPT !.pc = "update"]]
        BY <3>5 DEF RecordErasure
      <4> HIDE DEF c
      <4> QED BY <4>1, <4>2
    <3> QED BY <1>5, <3>1, <3>2, <3>3, <3>4, <3>5
  <2> HIDE DEF c
  <2> QED BY <2>1, <2>3, TouchElsewhere DEF c
<1> QED BY <1>2, <1>3, <1>4, <1>5

-----------------------------------------------------------------------------
\* Every step of the data subject services keeps the invariant.
LEMMA SubjectStep == ASSUME SubjectInv, [SubjectNext]_subjectVars PROVE SubjectInv'
<1> USE DEF SubjectInv
<1>1. ASSUME NEW h \in Holds, ActivateHold(h) \/ ReleaseHold(h) \/ ExpireHold(h)
      PROVE  SubjectInv'
  <2>1. call' = call /\ unsure' = unsure /\ restricted' = restricted /\ cached' \subseteq cached
    BY <1>1 DEF ActivateHold, ReleaseHold, ExpireHold
  <2> QED BY <1>1, <2>1, HoldInv, TouchStays
<1>2. ASSUME NEW r \in RequestIds, NEW s \in Subjects,
             NEW type \in {"erasure", "restriction", "access"},
             SubmitRequest(r, type, s)
      PROVE  SubjectInv'
  <2>1. call' = call /\ unsure' = unsure /\ restricted' = restricted /\ cached' \subseteq cached
    BY <1>2 DEF SubmitRequest
  <2> QED BY <1>2, <2>1, SubmitInv, TouchStays
<1>3. ASSUME NEW r \in RequestIds, VerifyRequest(r) PROVE SubjectInv'
  <2>1. call' = call /\ unsure' = unsure /\ restricted' = restricted /\ cached' \subseteq cached
    BY <1>3 DEF VerifyRequest
  <2> QED BY <1>3, <2>1, SubmitInv, TouchStays
<1>4. ASSUME NEW k \in Keys, WriteMapping(k) PROVE SubjectInv'
  <2>1. call' = call /\ unsure' = unsure /\ restricted' = restricted /\ cached' \subseteq cached
    BY <1>4 DEF WriteMapping
  <2> QED BY <1>4, <2>1, WriteMappingInv, TouchStays
<1>5. ASSUME NEW s \in Subjects, CacheExpires(s) PROVE SubjectInv'
  <2>1. call' = call /\ unsure' = unsure /\ restricted' = restricted /\ cached' \subseteq cached
    BY <1>5 DEF CacheExpires
  <2> QED BY <1>5, <2>1, ExpiryInv, TouchStays
<1>6. ASSUME NEW w \in Workers, Fulfilling(w) PROVE SubjectInv'
  <2>1. CASE \E r \in RequestIds : Fulfil(w, r)
    BY <2>1, FulfilInv, OtherCallSound
  <2>2. CASE CheckHold(w)
    BY <2>2, CheckHoldInv, OtherCallSound
  <2>3. CASE UpdateRequest(w)
    BY <2>3, UpdateInv, OtherCallSound
  <2> QED BY <1>6, <2>1, <2>2, <2>3 DEF Fulfilling
<1>7. ASSUME NEW w \in Workers, Erasing(w) PROVE SubjectInv'
  <2>1. CASE \E s \in Subjects : EraseNow(w, s)
    BY <2>1, StartInv, OtherCallSound
  <2>2. CASE ScanAndDelete(w)
    BY <2>2, ScanInv, OtherCallSound
  <2>3. CASE ScanFails(w) \/ RecordErasure(w)
    BY <2>3, ScanFailsInv, OtherCallSound
  <2> QED BY <1>7, <2>1, <2>2, <2>3 DEF Erasing
<1>8. ASSUME NEW w \in Workers, Restricting(w) PROVE SubjectInv'
  <2>1. CASE \E s \in Subjects : ApplyRestriction(w, s) \/ RemoveRestriction(w, s)
    BY <2>1, StartInv, OtherCallSound
  <2>2. CASE \/ ProbeCache(w) \/ ProbeRow(w) \/ InsertRestriction(w)
             \/ CacheRestriction(w) \/ DeleteRow(w) \/ DropCache(w)
    BY <2>2, RestrictStepInv, RestrictStepSound
  <2> QED BY <1>8, <2>1, <2>2 DEF Restricting
<1>9. CASE UNCHANGED subjectVars
  <2>1. /\ call' = call /\ requests' = requests /\ holdRows' = holdRows /\ keys' = keys
        /\ written' = written /\ wiring' = wiring
        /\ unsure' = unsure /\ restricted' = restricted /\ cached' = cached
    BY <1>9 DEF subjectVars
  <2>2. Onwards /\ RestrictionSound'
    BY <2>1, QuietOnwards, TouchStays
  <2>3. SubjectShapes' /\ ErasureSound'
    BY <2>1, <2>2, NobodyMoves DEF SubjectShapes
  <2> QED BY <2>2, <2>3
<1> QED
  BY <1>1, <1>2, <1>3, <1>4, <1>5, <1>6, <1>7, <1>8, <1>9
  DEF SubjectNext, ErasureNext, RestrictionNext

\* The invariant behind the data subject services: what a call or an answered
\* request noted when it began is still comparable, scans have taken what they
\* passed, and restriction calls on a subject follow one another.
THEOREM SubjectInvariant == SubjectSpec => []SubjectInv
<1>1. SubjectInit => SubjectInv
  BY DEF SubjectInit, SubjectInv, SubjectShapes, ErasureSound, RestrictionSound, CallShape,
         CallSound, TouchSound, Touches, IdleWorker
<1> QED BY <1>1, SubjectStep, PTL DEF SubjectSpec

\* However calls, holds, new mappings and failures interleave, for any number
\* of workers: a hold that covers a subject throughout stops its erasure, what
\* was erased is gone, and a cached restriction has its row.
THEOREM SubjectRightsAreKept == SubjectSpec => []SubjectRightsKept
<1>1. SubjectInv => SubjectRightsKept
  <2> SUFFICES ASSUME SubjectInv PROVE SubjectRightsKept
    OBVIOUS
  <2>1. HoldThroughoutBlocks /\ DeletedMeansGone
    BY DEF SubjectInv, ErasureSound, RowSound, Unheld, HoldThroughoutBlocks, DeletedMeansGone
  <2>2. CachedRestrictionHasRow
    BY DEF SubjectInv, RestrictionSound, TouchSound, Touches, CachedRestrictionHasRow, Busy
  <2> QED BY <2>1, <2>2 DEF SubjectRightsKept
<1> QED BY <1>1, SubjectInvariant, PTL

-----------------------------------------------------------------------------
(***************************************************************************)
(* SloBreaches.  The stamp of a window is that of its last breach, so an   *)
(* evaluation about to stamp is a cooldown away from the last breach that  *)
(* was there when it looked.  A breach that is open has the evaluation     *)
(* that will make its task, a task that still sends it, or a place in the  *)
(* dead letter queue.                                                      *)
(***************************************************************************)

TaskRecords == [at : {"unmade", "send", "dlq", "trim", "done"}, n : Nat]
Fates == {"open", "delivered", "acked", "trimmed", "dropped"}
BreachRecords == [window : Windows, at : Nat \ {0}, seen : Nat]

\* An evaluation at work: it left some windows to look at.
EvaluatorShape(v) ==
    v.pc # "idle" =>
        /\ v.pc \in {"check", "stamp", "audit"}
        /\ v.left \subseteq Windows
        /\ v.at \in Nat \ {0}
        /\ v.pc \in {"stamp", "audit"} => v.window \in v.left

\* The stamp of a window is that of its last breach.
StampIsLast ==
    \A i \in DOMAIN breaches :
        LastOf(breaches, i, Len(breaches), breaches[i].window) =>
            lastBreach[breaches[i].window] = breaches[i].at

\* An evaluation about to report a breach is a cooldown away from the last that
\* there was when it looked.
CooledDown ==
    \A e \in Evaluators :
        LET v == evaluator[e] IN
        v.pc = "stamp" =>
            /\ v.seen \in Nat /\ v.seen <= Len(breaches)
            /\ \A i \in DOMAIN breaches :
                  LastOf(breaches, i, v.seen, v.window) => v.at - breaches[i].at >= Cooldown

SeenBefore == \A j \in DOMAIN breaches : breaches[j].seen < j

CooldownInv ==
    /\ now \in Nat /\ now >= 1
    /\ lastBreach \in [Windows -> Nat]
    /\ evaluator = [e \in Evaluators |-> evaluator[e]]
    /\ \A e \in Evaluators : EvaluatorShape(evaluator[e])
    /\ breaches \in Seq(BreachRecords)
    /\ SeenBefore /\ StampIsLast /\ CooledDown /\ CooldownHolds

\* The evaluations between their stamp and their task, each with its own breach.
Owners ==
    \A e \in Evaluators : evaluator[e].pc = "audit" =>
        /\ evaluator[e].breach \in DOMAIN breaches
        /\ task[evaluator[e].breach].at = "unmade"
        /\ \A x \in Evaluators : evaluator[x].pc = "audit" /\ evaluator[x].breach = evaluator[e].breach
               => x = e

DlqInv ==
    /\ task \in Seq(TaskRecords) /\ fate \in Seq(Fates)
    /\ Len(task) = Len(breaches) /\ Len(fate) = Len(breaches)
    /\ dlq \in Seq(Nat) /\ retry \in Seq(Nat)
    /\ Owners /\ BreachKept

SloInv == CooldownInv /\ DlqInv

\* Time passes or the counters change: evaluations and breaches stay.
LEMMA CooldownRest ==
    ASSUME CooldownInv, now' \in Nat, now' >= 1,
           UNCHANGED <<lastBreach, evaluator, breaches>>
    PROVE  CooldownInv'
BY DEF CooldownInv, EvaluatorShape, SeenBefore, StampIsLast, CooledDown, CooldownHolds, LastOf

\* The tasks and the queue stay.
LEMMA DlqRest ==
    ASSUME DlqInv, UNCHANGED <<breaches, task, dlq, fate, retry, evaluator>>
    PROVE  DlqInv'
BY DEF DlqInv, Owners, BreachKept, Unmade, Sending

\* An evaluation goes on, and is not about to stamp unless it is far enough from
\* the last breach it saw.
LEMMA EvaluatorMoves ==
    ASSUME CooldownInv, NEW e \in Evaluators, NEW n,
           evaluator' = [evaluator EXCEPT ![e] = n], EvaluatorShape(n),
           n.pc = "stamp" =>
               /\ n.seen = Len(breaches)
               /\ \A i \in DOMAIN breaches :
                     LastOf(breaches, i, n.seen, n.window) => n.at - breaches[i].at >= Cooldown,
           UNCHANGED <<now, lastBreach, breaches>>
    PROVE  CooldownInv'
<1>1. /\ \A x \in Evaluators : evaluator'[x] = IF x = e THEN n ELSE evaluator[x]
      /\ evaluator' = [x \in Evaluators |-> evaluator'[x]]
  BY DEF CooldownInv
<1>2. (\A x \in Evaluators : EvaluatorShape(evaluator[x]))'
  BY <1>1 DEF CooldownInv, EvaluatorShape
<1>3. SeenBefore' /\ StampIsLast' /\ CooldownHolds'
  BY DEF CooldownInv, SeenBefore, StampIsLast, CooldownHolds, LastOf
<1>4. CooledDown'
  <2> SUFFICES ASSUME NEW x \in Evaluators, evaluator'[x].pc = "stamp"
               PROVE  /\ evaluator'[x].seen \in Nat /\ evaluator'[x].seen <= Len(breaches)
                      /\ \A i \in DOMAIN breaches :
                            LastOf(breaches, i, evaluator'[x].seen, evaluator'[x].window) =>
                                evaluator'[x].at - breaches[i].at >= Cooldown
    BY DEF CooledDown, LastOf
  <2>1. CASE x = e
    <3>1. Len(breaches) \in Nat
      BY DEF CooldownInv
    <3> QED BY <1>1, <2>1, <3>1
  <2>2. CASE x # e
    <3>1. evaluator'[x] = evaluator[x]
      BY <1>1, <2>2
    <3> QED BY <3>1 DEF CooldownInv, CooledDown
  <2> QED BY <2>1, <2>2
<1>5. now' \in Nat /\ now' >= 1 /\ lastBreach' \in [Windows -> Nat] /\ breaches' \in Seq(BreachRecords)
  BY DEF CooldownInv
<1> QED BY <1>1, <1>2, <1>3, <1>4, <1>5 DEF CooldownInv

\* An evaluation that does not hold a breach, before or after, moves on.
LEMMA OwnersRest ==
    ASSUME DlqInv, NEW e \in Evaluators, NEW n, evaluator = [x \in Evaluators |-> evaluator[x]],
           evaluator' = [evaluator EXCEPT ![e] = n],
           evaluator[e].pc # "audit", n.pc # "audit",
           UNCHANGED <<breaches, task, dlq, fate, retry>>
    PROVE  DlqInv'
<1>1. \A x \in Evaluators : evaluator'[x] = IF x = e THEN n ELSE evaluator[x]
  OBVIOUS
<1>2. \A x \in Evaluators : evaluator'[x].pc = "audit" => x # e /\ evaluator'[x] = evaluator[x]
  BY <1>1
<1>3. Owners'
  BY <1>2 DEF DlqInv, Owners
<1>4. \A b : Unmade(b) => Unmade(b)'
  BY <1>1 DEF Unmade
<1>5. BreachKept'
  BY <1>4 DEF DlqInv, BreachKept, Sending
<1> QED BY <1>3, <1>5 DEF DlqInv

\* An evaluation looks at both windows.
LEMMA EvaluateInv ==
    ASSUME SloInv, NEW e \in Evaluators, Evaluate(e)
    PROVE  SloInv'
<1> DEFINE r == [num |-> InWindow(rolling.num), den |-> InWindow(rolling.den)]
           bad == NonCompliant(r, fixed[Day(now)])
<1>1. PICK v : v = [pc |-> "check", left |-> bad, at |-> now]
  OBVIOUS
<1>2. /\ evaluator[e].pc = "idle"
      /\ evaluator' = [evaluator EXCEPT ![e] = v]
      /\ UNCHANGED <<now, lastBreach, breaches, task, dlq, fate, retry>>
  BY <1>1 DEF Evaluate
<1>3. bad \subseteq Windows
  BY DEF NonCompliant
<1> HIDE DEF bad
<1>4. v.pc = "check" /\ v.left = bad /\ v.at = now
  BY <1>1
<1>5. EvaluatorShape(v)
  BY <1>3, <1>4 DEF EvaluatorShape, SloInv, CooldownInv
<1>6. CooldownInv'
  BY <1>2, <1>4, <1>5, EvaluatorMoves DEF SloInv
<1>7. DlqInv'
  BY <1>2, <1>4, OwnersRest DEF SloInv, CooldownInv
<1> QED BY <1>6, <1>7 DEF SloInv

\* What leaving a window makes of an evaluation.
LEMMA LeaveShape ==
    ASSUME NEW e \in Evaluators, NEW w, EvaluatorShape(evaluator[e]), evaluator[e].pc # "idle"
    PROVE  EvaluatorShape(Leave(e, w)) /\ Leave(e, w).pc \in {"idle", "check"}
<1> DEFINE m == [pc |-> "check", left |-> evaluator[e].left \ {w}, at |-> evaluator[e].at]
<1>1. evaluator[e].left \subseteq Windows /\ evaluator[e].at \in Nat \ {0}
  BY DEF EvaluatorShape
<1>2. Leave(e, w) = IdleEvaluator \/ Leave(e, w) = m
  BY DEF Leave
<1>3. m.pc = "check" /\ m.left = evaluator[e].left \ {w} /\ m.at = evaluator[e].at
  OBVIOUS
<1> HIDE DEF m
<1>4. EvaluatorShape(m)
  BY <1>1, <1>3 DEF EvaluatorShape
<1>5. EvaluatorShape(IdleEvaluator) /\ IdleEvaluator.pc = "idle"
  BY DEF EvaluatorShape, IdleEvaluator
<1> QED BY <1>2, <1>3, <1>4, <1>5

\* The cooldown is looked at.
LEMMA CheckCooldownInv ==
    ASSUME SloInv, NEW e \in Evaluators, CheckCooldown(e)
    PROVE  SloInv'
<1> DEFINE v == evaluator[e]
<1>1. PICK w \in v.left :
         evaluator' = [evaluator EXCEPT ![e] =
            IF InCooldown(w, v.at) THEN Leave(e, w)
            ELSE [pc |-> "stamp", left |-> v.left, at |-> v.at, window |-> w,
                  seen |-> Len(breaches)]]
  BY DEF CheckCooldown
<1>2. v.pc = "check" /\ UNCHANGED <<now, lastBreach, breaches, task, dlq, fate, retry>>
  BY DEF CheckCooldown
<1>3. CooldownInv /\ DlqInv /\ EvaluatorShape(v)
  BY DEF SloInv, CooldownInv
<1>4. v.left \subseteq Windows /\ v.at \in Nat \ {0}
  BY <1>2, <1>3 DEF EvaluatorShape
<1>5. CASE InCooldown(w, v.at)
  <2>1. PICK n : n = Leave(e, w)
    OBVIOUS
  <2>2. evaluator' = [evaluator EXCEPT ![e] = n]
    BY <1>1, <1>5, <2>1
  <2>3. EvaluatorShape(n) /\ n.pc \in {"idle", "check"}
    BY <1>2, <1>3, <2>1, LeaveShape
  <2>4. CooldownInv'
    BY <1>2, <1>3, <2>2, <2>3, EvaluatorMoves
  <2>5. DlqInv'
    BY <1>2, <1>3, <2>2, <2>3, OwnersRest DEF CooldownInv
  <2> QED BY <2>4, <2>5 DEF SloInv
<1>6. CASE ~InCooldown(w, v.at)
  <2>1. PICK n : n = [pc |-> "stamp", left |-> v.left, at |-> v.at, window |-> w,
                      seen |-> Len(breaches)]
    OBVIOUS
  <2>2. evaluator' = [evaluator EXCEPT ![e] = n]
    BY <1>1, <1>6, <2>1
  <2>3. n.pc = "stamp" /\ n.left = v.left /\ n.at = v.at /\ n.window = w /\ n.seen = Len(breaches)
    BY <2>1
  <2>4. EvaluatorShape(n)
    BY <1>1, <1>4, <2>3 DEF EvaluatorShape
  <2>5. ASSUME NEW i \in DOMAIN breaches, LastOf(breaches, i, n.seen, n.window)
        PROVE  n.at - breaches[i].at >= Cooldown
    <3>1. breaches[i].window = w
      BY <2>3, <2>5 DEF LastOf
    <3>2. lastBreach[w] = breaches[i].at
      BY <1>3, <2>3, <2>5, <3>1 DEF CooldownInv, StampIsLast
    <3>3. breaches[i].at \in Nat \ {0}
      <4>1. breaches \in Seq(BreachRecords) /\ i \in DOMAIN breaches
        BY <1>3, <2>5 DEF CooldownInv
      <4>2. breaches[i] \in BreachRecords
        BY <4>1
      <4> QED BY <4>2 DEF BreachRecords
    <3>4. ~(v.at - lastBreach[w] < Cooldown)
      BY <1>6, <3>2, <3>3 DEF InCooldown
    <3> QED BY <1>4, <2>3, <3>2, <3>3, <3>4, SloAssumption
  <2>6. CooldownInv'
    BY <1>2, <1>3, <2>2, <2>3, <2>4, <2>5, EvaluatorMoves
  <2>7. DlqInv'
    BY <1>2, <1>3, <2>2, <2>3, OwnersRest DEF CooldownInv
  <2> QED BY <2>6, <2>7 DEF SloInv
<1> QED BY <1>5, <1>6

\* One breach more, and what the ones before it were the last of.
LEMMA OneBreachMore ==
    ASSUME breaches \in Seq(BreachRecords), NEW b \in BreachRecords,
           breaches' = Append(breaches, b)
    PROVE  /\ breaches' \in Seq(BreachRecords) /\ Len(breaches') = Len(breaches) + 1
           /\ Len(breaches) \in Nat /\ DOMAIN breaches = 1 .. Len(breaches)
           /\ DOMAIN breaches' = 1 .. (Len(breaches) + 1)
           /\ \A i \in 1 .. Len(breaches) : breaches'[i] = breaches[i]
           /\ breaches'[Len(breaches) + 1] = b
           /\ \A i, w : \A n \in Nat :
                 n <= Len(breaches) /\ LastOf(breaches', i, n, w) => LastOf(breaches, i, n, w)
<1>1. /\ breaches' \in Seq(BreachRecords) /\ Len(breaches') = Len(breaches) + 1
      /\ Len(breaches) \in Nat /\ DOMAIN breaches = 1 .. Len(breaches)
      /\ DOMAIN breaches' = 1 .. (Len(breaches) + 1)
      /\ \A i \in 1 .. Len(breaches) : breaches'[i] = breaches[i]
      /\ breaches'[Len(breaches) + 1] = b
  BY AppendProperties
<1>2. ASSUME NEW i, NEW w, NEW n \in Nat, n <= Len(breaches), LastOf(breaches', i, n, w)
      PROVE  LastOf(breaches, i, n, w)
  <2>1. /\ i \in 1 .. n /\ breaches'[i].window = w
        /\ \A k \in i + 1 .. n : breaches'[k].window # w
    BY <1>2 DEF LastOf
  <2>2. i \in 1 .. Len(breaches) /\ \A k \in i + 1 .. n : k \in 1 .. Len(breaches)
    BY <1>1, <1>2, <2>1
  <2> QED BY <1>1, <2>1, <2>2 DEF LastOf
<1> QED BY <1>1, <1>2

\* A breach is stamped.
LEMMA StampCooldown ==
    ASSUME CooldownInv, NEW e \in Evaluators, StampBreach(e)
    PROVE  CooldownInv'
<1> DEFINE v == evaluator[e]
           w == v.window
<1>1. PICK b : b = [window |-> w, at |-> v.at, seen |-> v.seen]
  OBVIOUS
<1>2. /\ v.pc = "stamp" /\ now' = now
      /\ lastBreach' = [lastBreach EXCEPT ![w] = v.at]
      /\ breaches' = Append(breaches, b)
  BY <1>1 DEF StampBreach
<1>3. /\ v.left \subseteq Windows /\ v.at \in Nat \ {0} /\ w \in v.left /\ w \in Windows
      /\ v.seen \in Nat /\ v.seen <= Len(breaches)
      /\ \A i \in DOMAIN breaches : LastOf(breaches, i, v.seen, w) => v.at - breaches[i].at >= Cooldown
  BY <1>2 DEF CooldownInv, EvaluatorShape, CooledDown
<1>4. b \in BreachRecords /\ b.window = w /\ b.at = v.at /\ b.seen = v.seen
  BY <1>1, <1>3 DEF BreachRecords
<1>5. /\ breaches' \in Seq(BreachRecords) /\ Len(breaches') = Len(breaches) + 1
      /\ Len(breaches) \in Nat /\ DOMAIN breaches = 1 .. Len(breaches)
      /\ DOMAIN breaches' = 1 .. (Len(breaches) + 1)
      /\ \A i \in 1 .. Len(breaches) : breaches'[i] = breaches[i]
      /\ breaches'[Len(breaches) + 1] = b
      /\ \A i, u : \A n \in Nat : n <= Len(breaches) /\ LastOf(breaches', i, n, u) => LastOf(breaches, i, n, u)
  BY <1>2, <1>4, OneBreachMore DEF CooldownInv
<1>6. PICK n : n.pc \in {"idle", "audit"} /\ EvaluatorShape(n)
               /\ evaluator' = [evaluator EXCEPT ![e] = n]
  <2>1. PICK m : m = [pc |-> "audit", left |-> v.left, at |-> v.at, window |-> w,
                      breach |-> Len(breaches) + 1]
    OBVIOUS
  <2>2. m.pc = "audit" /\ m.left = v.left /\ m.at = v.at /\ m.window = w
    BY <2>1
  <2>3. EvaluatorShape(m)
    BY <1>3, <2>2 DEF EvaluatorShape
  <2>4. EvaluatorShape(IdleEvaluator) /\ IdleEvaluator.pc = "idle"
    BY DEF EvaluatorShape, IdleEvaluator
  <2>5. evaluator' = [evaluator EXCEPT ![e] = m] \/ evaluator' = [evaluator EXCEPT ![e] = IdleEvaluator]
    BY <2>1 DEF StampBreach
  <2> QED BY <2>2, <2>3, <2>4, <2>5
<1>7. /\ \A x \in Evaluators : evaluator'[x] = IF x = e THEN n ELSE evaluator[x]
      /\ evaluator' = [x \in Evaluators |-> evaluator'[x]]
  BY <1>6 DEF CooldownInv
<1>8. (\A x \in Evaluators : EvaluatorShape(evaluator[x]))'
  BY <1>6, <1>7 DEF CooldownInv, EvaluatorShape
<1>9. /\ lastBreach' \in [Windows -> Nat] /\ lastBreach'[w] = v.at
      /\ \A u \in Windows \ {w} : lastBreach'[u] = lastBreach[u]
  BY <1>2, <1>3 DEF CooldownInv
<1>10. SeenBefore'
  <2> SUFFICES ASSUME NEW j \in 1 .. (Len(breaches) + 1) PROVE breaches'[j].seen < j
    BY <1>5 DEF SeenBefore
  <2>1. CASE j = Len(breaches) + 1
    BY <1>3, <1>4, <1>5, <2>1
  <2>2. CASE j \in 1 .. Len(breaches)
    BY <1>5, <2>2 DEF SeenBefore, CooldownInv
  <2> QED BY <1>5, <2>1, <2>2
<1>11. StampIsLast'
  <2> SUFFICES ASSUME NEW i \in 1 .. (Len(breaches) + 1),
                      LastOf(breaches', i, Len(breaches'), breaches'[i].window)
               PROVE  lastBreach'[breaches'[i].window] = breaches'[i].at
    BY <1>5 DEF StampIsLast
  <2>1. CASE i = Len(breaches) + 1
    BY <1>4, <1>5, <1>9, <2>1
  <2>2. CASE i \in 1 .. Len(breaches)
    <3>1. breaches'[i] = breaches[i] /\ breaches[i].window \in Windows
      <4>1. breaches \in Seq(BreachRecords) /\ i \in DOMAIN breaches
        BY <1>5, <2>2 DEF CooldownInv
      <4>2. breaches[i] \in BreachRecords
        BY <4>1
      <4> QED BY <1>5, <2>2, <4>2 DEF BreachRecords
    <3>2. \A k \in i + 1 .. Len(breaches) + 1 : breaches'[k].window # breaches[i].window
      BY <1>5, <3>1 DEF LastOf
    <3>3. breaches[i].window # w
      BY <1>4, <1>5, <2>2, <3>2
    <3>4. \A k \in i + 1 .. Len(breaches) : breaches[k].window # breaches[i].window
      BY <1>5, <2>2, <3>2
    <3>5. LastOf(breaches, i, Len(breaches), breaches[i].window)
      BY <1>5, <2>2, <3>4 DEF LastOf
    <3> QED BY <1>5, <1>9, <2>2, <3>1, <3>3, <3>5 DEF StampIsLast, CooldownInv
  <2> QED BY <1>5, <2>1, <2>2
<1>12. CooledDown'
  <2> SUFFICES ASSUME NEW x \in Evaluators, evaluator'[x].pc = "stamp"
               PROVE  /\ evaluator'[x].seen \in Nat /\ evaluator'[x].seen <= Len(breaches')
                      /\ \A i \in DOMAIN breaches' :
                            LastOf(breaches', i, evaluator'[x].seen, evaluator'[x].window) =>
                                evaluator'[x].at - breaches'[i].at >= Cooldown
    BY DEF CooledDown
  <2>1. x # e /\ evaluator'[x] = evaluator[x]
    BY <1>6, <1>7
  <2>2. /\ evaluator[x].seen \in Nat /\ evaluator[x].seen <= Len(breaches)
        /\ \A i \in DOMAIN breaches : LastOf(breaches, i, evaluator[x].seen, evaluator[x].window) =>
               evaluator[x].at - breaches[i].at >= Cooldown
    BY <2>1 DEF CooledDown, CooldownInv
  <2>3. ASSUME NEW i \in DOMAIN breaches', LastOf(breaches', i, evaluator'[x].seen, evaluator'[x].window)
        PROVE  evaluator'[x].at - breaches'[i].at >= Cooldown
    <3>1. LastOf(breaches, i, evaluator[x].seen, evaluator[x].window)
      <4>1. PICK k \in Nat : k = evaluator[x].seen
        BY <2>2
      <4>2. PICK u : u = evaluator[x].window
        OBVIOUS
      <4>3. LastOf(breaches', i, k, u)
        BY <2>1, <2>3, <4>1, <4>2
      <4> QED BY <1>5, <2>2, <4>1, <4>2, <4>3
    <3>2. i \in 1 .. Len(breaches)
      BY <1>5, <2>2, <3>1 DEF LastOf
    <3> QED BY <1>5, <2>1, <2>2, <3>1, <3>2
  <2> QED BY <1>5, <2>1, <2>2, <2>3
<1>13. CooldownHolds'
  <2> SUFFICES ASSUME NEW j \in DOMAIN breaches', NEW i \in DOMAIN breaches',
                      LastOf(breaches', i, breaches'[j].seen, breaches'[j].window)
               PROVE  breaches'[j].at - breaches'[i].at >= Cooldown
    BY DEF CooldownHolds
  <2>1. CASE j = Len(breaches) + 1
    <3>1. LastOf(breaches', i, v.seen, w)
      BY <1>4, <1>5, <2>1
    <3>2. LastOf(breaches, i, v.seen, w)
      BY <1>3, <1>5, <3>1
    <3>3. i \in 1 .. Len(breaches)
      BY <1>3, <1>5, <3>2 DEF LastOf
    <3> QED BY <1>3, <1>4, <1>5, <2>1, <3>2, <3>3
  <2>2. CASE j \in 1 .. Len(breaches)
    <3>1. /\ breaches'[j] = breaches[j] /\ breaches[j].seen < j
          /\ breaches[j].seen \in Nat /\ j \in DOMAIN breaches
      <4>1. breaches \in Seq(BreachRecords) /\ j \in DOMAIN breaches /\ SeenBefore
        BY <1>5, <2>2 DEF CooldownInv
      <4>2. breaches[j] \in BreachRecords
        BY <4>1
      <4>3. breaches[j].seen \in Nat
        BY <4>2 DEF BreachRecords
      <4> QED BY <1>5, <2>2, <4>1, <4>3 DEF SeenBefore
    <3>2. LastOf(breaches, i, breaches[j].seen, breaches[j].window)
      <4>1. PICK k \in Nat : k = breaches[j].seen
        BY <3>1
      <4>2. PICK u : u = breaches[j].window
        OBVIOUS
      <4>3. LastOf(breaches', i, k, u)
        BY <3>1, <4>1, <4>2
      <4> QED BY <1>5, <2>2, <3>1, <4>1, <4>2, <4>3
    <3>3. i \in 1 .. Len(breaches)
      BY <1>5, <2>2, <3>1, <3>2 DEF LastOf
    <3> QED BY <1>5, <3>1, <3>2, <3>3 DEF CooldownHolds, CooldownInv
  <2> QED BY <1>5, <2>1, <2>2
<1> QED BY <1>2, <1>5, <1>7, <1>8, <1>9, <1>10, <1>11, <1>12, <1>13 DEF CooldownInv

\* An evaluation makes the task of its breach, or ends.
LEMMA FireCooldown ==
    ASSUME CooldownInv, NEW e \in Evaluators, FireWebhook(e) \/ EvaluateEnds(e)
    PROVE  CooldownInv'
<1>1. UNCHANGED <<now, lastBreach, breaches>> /\ evaluator[e].pc # "idle"
  BY DEF FireWebhook, EvaluateEnds
<1>2. PICK n \in {Leave(e, evaluator[e].window), IdleEvaluator} :
          evaluator' = [evaluator EXCEPT ![e] = n]
  BY DEF FireWebhook, EvaluateEnds
<1>3. EvaluatorShape(n) /\ n.pc \in {"idle", "check"}
  <2>1. EvaluatorShape(IdleEvaluator) /\ IdleEvaluator.pc = "idle"
    BY DEF EvaluatorShape, IdleEvaluator
  <2>2. EvaluatorShape(evaluator[e])
    BY DEF CooldownInv
  <2> QED BY <1>1, <1>2, <2>1, <2>2, LeaveShape
<1> QED BY <1>1, <1>2, <1>3, EvaluatorMoves

\* The queue u still holds what q does, but for b.
HoldsRest(q, u, b) ==
    \A x : x # b /\ (\E i \in DOMAIN q : q[i] = x) => \E i \in DOMAIN u : u[i] = x

\* What Without leaves of the queue.
LEMMA WithoutElements ==
    ASSUME NEW q \in Seq(Nat), NEW b, NEW u, u = Without(q, b)
    PROVE  u \in Seq(Nat) /\ HoldsRest(q, u, b)
<1> DEFINE S == ToSet(q) \ {b}
<1>1. u = Kept(q, S)
  BY DEF Without
<1>2. u \in Seq(Nat) /\ ToSet(u) = ToSet(q) \cap S
  BY <1>1, KeptElements
<1> QED BY <1>2, ZenonT(60) DEF ToSet, HoldsRest

\* What an assignment to one element of a sequence makes of it.
LEMMA OneElement ==
    ASSUME NEW T, NEW s \in Seq(T), NEW i \in 1 .. Len(s), NEW e \in T, NEW u,
           u = [s EXCEPT ![i] = e]
    PROVE  /\ u \in Seq(T) /\ Len(u) = Len(s)
           /\ \A j \in 1 .. Len(s) : u[j] = IF j = i THEN e ELSE s[j]
BY ExceptSeq

\* The task of a breach moves: the breach is still sent or queued if it is open.
LEMMA TaskMoves ==
    ASSUME DlqInv, breaches \in Seq(BreachRecords), NEW b \in DOMAIN breaches,
           NEW t \in TaskRecords, task[b].at # "unmade", task' = [task EXCEPT ![b] = t],
           fate' \in Seq(Fates), Len(fate') = Len(fate),
           \A j \in 1 .. Len(fate) : j # b => fate'[j] = fate[j],
           dlq' \in Seq(Nat),
           \A x : (\E i \in DOMAIN dlq : dlq[i] = x) => \E i \in DOMAIN dlq' : dlq'[i] = x,
           fate'[b] = "open" => t.at \in {"send", "dlq"} \/ \E i \in DOMAIN dlq' : dlq'[i] = b,
           UNCHANGED <<breaches, retry, evaluator>>
    PROVE  DlqInv'
<1>1. /\ DOMAIN breaches = 1 .. Len(breaches) /\ Len(breaches) \in Nat
      /\ b \in 1 .. Len(task) /\ Len(task) = Len(breaches) /\ Len(fate) = Len(breaches)
  BY DEF DlqInv
<1>2. /\ task' \in Seq(TaskRecords) /\ Len(task') = Len(task)
      /\ \A j \in 1 .. Len(task) : task'[j] = IF j = b THEN t ELSE task[j]
  BY <1>1, OneElement DEF DlqInv
<1>3. Owners'
  <2> SUFFICES ASSUME NEW e \in Evaluators, evaluator[e].pc = "audit"
               PROVE  /\ evaluator[e].breach \in DOMAIN breaches
                      /\ task'[evaluator[e].breach].at = "unmade"
                      /\ \A x \in Evaluators :
                            evaluator[x].pc = "audit" /\ evaluator[x].breach = evaluator[e].breach
                                => x = e
    BY DEF Owners
  <2>1. /\ evaluator[e].breach \in DOMAIN breaches
        /\ task[evaluator[e].breach].at = "unmade"
        /\ \A x \in Evaluators :
              evaluator[x].pc = "audit" /\ evaluator[x].breach = evaluator[e].breach => x = e
    BY DEF DlqInv, Owners
  <2>2. task'[evaluator[e].breach] = task[evaluator[e].breach]
    BY <1>1, <1>2, <2>1
  <2> QED BY <2>1, <2>2
<1>4. BreachKept'
  <2> SUFFICES ASSUME NEW x \in DOMAIN breaches, fate'[x] = "open"
               PROVE  \/ Unmade(x) \/ task'[x].at = "send" \/ task'[x].at = "dlq"
                      \/ \E i \in DOMAIN dlq' : dlq'[i] = x
    BY DEF BreachKept, Sending, Unmade
  <2>0. x \in 1 .. Len(task) /\ x \in 1 .. Len(fate)
    BY <1>1
  <2>1. CASE x = b
    BY <1>2, <2>0, <2>1
  <2>2. CASE x # b
    <3>1. fate[x] = "open" /\ task'[x] = task[x]
      BY <1>2, <2>0, <2>2
    <3>2. Unmade(x) \/ task[x].at = "send" \/ task[x].at = "dlq" \/ \E i \in DOMAIN dlq : dlq[i] = x
      BY <3>1 DEF DlqInv, BreachKept, Sending
    <3> QED BY <3>1, <3>2
  <2> QED BY <2>1, <2>2
<1> QED BY <1>1, <1>2, <1>3, <1>4 DEF DlqInv

\* What becomes of one breach.
LEMMA FateOf ==
    ASSUME DlqInv, NEW b \in DOMAIN breaches, NEW f \in Fates, fate' = [fate EXCEPT ![b] = f],
           breaches \in Seq(BreachRecords)
    PROVE  /\ fate' \in Seq(Fates) /\ Len(fate') = Len(fate)
           /\ \A j \in 1 .. Len(fate) : fate'[j] = IF j = b THEN f ELSE fate[j]
<1>1. b \in 1 .. Len(fate)
  BY DEF DlqInv
<1> QED BY <1>1, OneElement DEF DlqInv

\* A task sends, fails, gives the breach to the queue, or ends.
LEMMA SendsInv ==
    ASSUME DlqInv, NEW b \in DOMAIN breaches, breaches \in Seq(BreachRecords),
           Deliver(b) \/ DeliveryFails(b) \/ PushDlq(b) \/ TaskEnds(b)
    PROVE  DlqInv'
<1>0. /\ UNCHANGED <<breaches, retry, evaluator>>
      /\ DOMAIN breaches = 1 .. Len(breaches) /\ Len(breaches) \in Nat
      /\ b \in 1 .. Len(task) /\ b \in 1 .. Len(fate) /\ b \in Nat /\ task[b] \in TaskRecords
      /\ dlq \in Seq(Nat) /\ fate \in Seq(Fates) /\ fate[b] \in Fates
  BY DEF Deliver, DeliveryFails, PushDlq, TaskEnds, DlqInv
<1>1. PICK d : d = TaskAt("done")
  OBVIOUS
<1>2. d \in TaskRecords /\ d.at = "done"
  BY <1>1, SloAssumption DEF TaskAt, TaskRecords
<1>3. CASE Deliver(b)
  <2>1. /\ task' = [task EXCEPT ![b] = d] /\ dlq' = dlq /\ task[b].at = "send"
        /\ fate' = [fate EXCEPT ![b] = "delivered"] /\ "delivered" \in Fates
    BY <1>1, <1>3 DEF Deliver, Sending, Fates
  <2>2. /\ fate' \in Seq(Fates) /\ Len(fate') = Len(fate)
        /\ \A j \in 1 .. Len(fate) : fate'[j] = IF j = b THEN "delivered" ELSE fate[j]
    BY <2>1, FateOf
  <2>3. fate'[b] # "open"
    BY <1>0, <2>2
  <2> QED BY <1>0, <1>2, <2>1, <2>2, <2>3, TaskMoves
<1>4. CASE DeliveryFails(b)
  <2>1. PICK t : t = AfterFailure(b)
    OBVIOUS
  <2>2. t \in TaskRecords /\ t.at \in {"send", "dlq"}
    BY <1>0, <2>1, SloAssumption DEF AfterFailure, Attempt, TaskAt, TaskRecords
  <2>3. task' = [task EXCEPT ![b] = t] /\ dlq' = dlq /\ fate' = fate /\ task[b].at = "send"
    BY <1>4, <2>1 DEF DeliveryFails, Sending
  <2> QED BY <1>0, <2>2, <2>3, TaskMoves
<1>5. CASE PushDlq(b)
  <2>1. PICK m : m = TaskAt("trim")
    OBVIOUS
  <2>2. m \in TaskRecords
    BY <2>1, SloAssumption DEF TaskAt, TaskRecords
  <2>3. PICK t \in TaskRecords : task' = [task EXCEPT ![b] = t]
    BY <1>1, <1>2, <1>5, <2>1, <2>2 DEF PushDlq
  <2>4. dlq' = <<b>> \o dlq /\ fate' = fate /\ task[b].at = "dlq"
    BY <1>5 DEF PushDlq
  <2>5. <<b>> \in Seq(Nat) /\ <<b>>[1] = b /\ Len(<<b>>) = 1
    BY <1>0
  <2>6. PICK u : u = <<b>>
    OBVIOUS
  <2>7. u \in Seq(Nat) /\ b \in ToSet(u)
    BY <2>5, <2>6 DEF ToSet
  <2>8. ToSet(u \o dlq) = ToSet(u) \cup ToSet(dlq)
    <3>1. u \in Seq(Nat)
      BY <2>7
    <3>2. dlq \in Seq(Nat)
      BY <1>0
    <3>3. b \in Nat
      BY <1>0
    <3> QED BY <3>1, <3>2, <3>3, ListElements
  <2>12. u \o dlq \in Seq(Nat)
    BY <1>0, <2>7
  <2>9. dlq' \in Seq(Nat) /\ ToSet(dlq') = ToSet(u) \cup ToSet(dlq)
    BY <2>4, <2>6, <2>8, <2>12
  <2>10. \A x : (\E i \in DOMAIN dlq : dlq[i] = x) => \E i \in DOMAIN dlq' : dlq'[i] = x
    BY <2>9 DEF ToSet
  <2>11. \E i \in DOMAIN dlq' : dlq'[i] = b
    BY <2>7, <2>9 DEF ToSet
  <2> QED BY <1>0, <2>3, <2>4, <2>9, <2>10, <2>11, TaskMoves
<1>6. CASE TaskEnds(b)
  <2>1. task' = [task EXCEPT ![b] = d] /\ dlq' = dlq /\ task[b].at \in {"send", "dlq", "trim"}
    BY <1>1, <1>6 DEF TaskEnds
  <2>2. PICK f : f = IF task[b].at = "trim" THEN fate[b] ELSE "dropped"
    OBVIOUS
  <2>3. f \in Fates /\ fate' = [fate EXCEPT ![b] = f]
    BY <1>0, <1>6, <2>2 DEF TaskEnds, Fates
  <2>4. /\ fate' \in Seq(Fates) /\ Len(fate') = Len(fate)
        /\ \A j \in 1 .. Len(fate) : fate'[j] = IF j = b THEN f ELSE fate[j]
    BY <2>3, FateOf
  <2>5. ASSUME fate'[b] = "open" PROVE \E i \in DOMAIN dlq' : dlq'[i] = b
    <3>1. fate[b] = "open" /\ task[b].at = "trim"
      BY <1>0, <2>1, <2>2, <2>4, <2>5
    <3>2. ~Unmade(b)
      BY <3>1 DEF Unmade, DlqInv, Owners
    <3>3. Unmade(b) \/ task[b].at = "send" \/ task[b].at = "dlq" \/ \E i \in DOMAIN dlq : dlq[i] = b
      BY <3>1 DEF DlqInv, BreachKept, Sending
    <3> QED BY <2>1, <3>1, <3>2, <3>3
  <2> QED BY <1>0, <1>2, <2>1, <2>4, <2>5, TaskMoves
<1> QED BY <1>3, <1>4, <1>5, <1>6

\* The queue is trimmed: what falls out is no longer open.
LEMMA TrimInv ==
    ASSUME DlqInv, NEW b \in DOMAIN breaches, breaches \in Seq(BreachRecords), TrimDlq(b)
    PROVE  DlqInv'
<1> DEFINE n == IF Len(dlq) < DlqMax THEN Len(dlq) ELSE DlqMax
           cut == {dlq[i] : i \in n + 1 .. Len(dlq)}
<1>1. /\ dlq' = SubSeq(dlq, 1, n)
      /\ fate' = [x \in DOMAIN fate |-> IF x \in cut /\ fate[x] = "open" THEN "trimmed"
                                        ELSE fate[x]]
      /\ task' = [task EXCEPT ![b] = TaskAt("done")]
      /\ task[b].at = "trim" /\ UNCHANGED <<breaches, retry, evaluator>>
  BY DEF TrimDlq
<1>2. /\ DOMAIN breaches = 1 .. Len(breaches) /\ Len(breaches) \in Nat
      /\ b \in 1 .. Len(task) /\ DOMAIN fate = 1 .. Len(fate) /\ Len(dlq) \in Nat
      /\ DOMAIN dlq = 1 .. Len(dlq)
  BY DEF DlqInv
<1>3. n \in Nat /\ n <= Len(dlq)
  BY <1>2, SloAssumption
<1> HIDE DEF n
<1>4. /\ dlq' \in Seq(Nat) /\ Len(dlq') = n
      /\ \A i \in 1 .. n : dlq'[i] = dlq[i]
  BY <1>1, <1>3, <1>2 DEF DlqInv
<1>5. /\ task' \in Seq(TaskRecords) /\ Len(task') = Len(task)
      /\ \A j \in 1 .. Len(task) : j # b => task'[j] = task[j]
  <2>1. PICK t : t = TaskAt("done")
    OBVIOUS
  <2>2. t \in TaskRecords
    BY <2>1, SloAssumption DEF TaskAt, TaskRecords
  <2> QED BY <1>1, <1>2, <2>1, <2>2, OneElement DEF DlqInv
<1>6. /\ fate' \in Seq(Fates) /\ Len(fate') = Len(fate)
      /\ \A x \in 1 .. Len(fate) : fate'[x] = "open" => fate[x] = "open" /\ x \notin cut
  <2>1. \A x \in 1 .. Len(fate) : fate[x] \in Fates
    BY DEF DlqInv
  <2>2. fate' \in [1 .. Len(fate) -> Fates]
    BY <1>1, <1>2, <2>1 DEF Fates
  <2>3. Len(fate) \in Nat
    BY DEF DlqInv
  <2>4. fate' \in Seq(Fates)
    BY <2>2, <2>3, SeqDef
  <2>5. Len(fate') = Len(fate)
    BY <2>2, <2>3, <2>4
  <2> QED BY <1>1, <1>2, <2>4, <2>5
<1>7. BreachKept'
  <2> SUFFICES ASSUME NEW x \in DOMAIN breaches, fate'[x] = "open"
               PROVE  \/ Unmade(x) \/ task'[x].at = "send" \/ task'[x].at = "dlq"
                      \/ \E i \in DOMAIN dlq' : dlq'[i] = x
    BY <1>1 DEF BreachKept, Sending, Unmade
  <2>0. x \in 1 .. Len(task) /\ x \in 1 .. Len(fate)
    BY <1>2 DEF DlqInv
  <2>1. fate[x] = "open" /\ x \notin cut
    BY <1>6, <2>0
  <2>2. CASE \E i \in DOMAIN dlq : dlq[i] = x
    <3>1. PICK i \in 1 .. Len(dlq) : dlq[i] = x
      BY <1>2, <2>2
    <3>2. i \in 1 .. n
      BY <1>2, <1>3, <2>1, <3>1
    <3>3. i \in DOMAIN dlq' /\ dlq'[i] = x
      BY <1>3, <1>4, <3>1, <3>2
    <3> QED BY <3>3
  <2>3. CASE task[x].at \in {"send", "dlq"}
    <3>1. x # b
      BY <1>1, <2>3
    <3> QED BY <1>5, <2>0, <2>3, <3>1
  <2>4. Unmade(x) \/ task[x].at \in {"send", "dlq"} \/ \E i \in DOMAIN dlq : dlq[i] = x
    BY <2>1 DEF DlqInv, BreachKept, Sending
  <2> QED BY <2>2, <2>3, <2>4
<1>8. Owners'
  <2>1. \A j \in DOMAIN breaches : task[j].at = "unmade" => task'[j] = task[j]
    BY <1>1, <1>2, <1>5 DEF DlqInv
  <2> QED BY <1>1, <2>1 DEF DlqInv, Owners
<1> QED BY <1>1, <1>4, <1>5, <1>6, <1>7, <1>8 DEF DlqInv

\* An entry leaves the queue with its breach acknowledged or delivered.
LEMMA LeavesQueueInv ==
    ASSUME DlqInv, breaches \in Seq(BreachRecords), NEW b,
           dlq' = Without(dlq, b) \/ dlq' = dlq,
           \E f \in Fates \ {"open"} :
              fate' = [fate EXCEPT ![b] = f] \/ fate' = [fate EXCEPT ![b] = IF @ = "open" THEN f ELSE @],
           UNCHANGED <<breaches, task, evaluator>>, retry' \in Seq(Nat)
    PROVE  DlqInv'
<1>1. /\ DOMAIN breaches = 1 .. Len(breaches) /\ Len(fate) = Len(breaches)
      /\ DOMAIN fate = 1 .. Len(fate) /\ Len(fate) \in Nat /\ dlq \in Seq(Nat)
  BY DEF DlqInv
<1>2. PICK f \in Fates \ {"open"} :
         fate' = [fate EXCEPT ![b] = f] \/ fate' = [fate EXCEPT ![b] = IF @ = "open" THEN f ELSE @]
  OBVIOUS
<1>3. /\ fate' \in [1 .. Len(fate) -> Fates]
      /\ \A x \in 1 .. Len(fate) : fate'[x] = "open" => x # b /\ fate[x] = "open"
  <2>1. \A x \in 1 .. Len(fate) : fate[x] \in Fates
    BY DEF DlqInv
  <2>2. CASE fate' = [fate EXCEPT ![b] = f]
    BY <1>1, <1>2, <2>1, <2>2
  <2>3. CASE fate' = [fate EXCEPT ![b] = IF @ = "open" THEN f ELSE @]
    BY <1>1, <1>2, <2>1, <2>3
  <2> QED BY <1>2, <2>2, <2>3
<1>4. fate' \in Seq(Fates) /\ Len(fate') = Len(fate)
  <2>1. fate' \in Seq(Fates)
    BY <1>1, <1>3, SeqDef, SMTT(60)
  <2> QED BY <1>1, <1>3, <2>1
<1>5. PICK d : d = dlq'
  OBVIOUS
<1>6. d \in Seq(Nat) /\ HoldsRest(dlq, d, b)
  <2>1. CASE d = Without(dlq, b)
    BY <1>1, <2>1, WithoutElements
  <2>2. CASE d = dlq
    BY <1>1, <2>2 DEF HoldsRest
  <2> QED BY <1>5, <2>1, <2>2
<1>7. BreachKept'
  <2> SUFFICES ASSUME NEW x \in DOMAIN breaches, fate'[x] = "open"
               PROVE  \/ Unmade(x) \/ task[x].at = "send" \/ task[x].at = "dlq"
                      \/ \E i \in DOMAIN d : d[i] = x
    BY <1>5 DEF BreachKept, Sending, Unmade
  <2>1. x # b /\ fate[x] = "open"
    BY <1>1, <1>3
  <2> QED BY <1>6, <2>1 DEF DlqInv, BreachKept, Sending, HoldsRest
<1>8. Owners'
  BY DEF DlqInv, Owners
<1> QED BY <1>4, <1>5, <1>6, <1>7, <1>8 DEF DlqInv

\* Acknowledgements and retries of the queue.
LEMMA QueueInv ==
    ASSUME DlqInv, breaches \in Seq(BreachRecords), NEW b,
           AckDlqEntry(b) \/ RetryDlq \/ RetryOne
    PROVE  DlqInv'
<1>1. CASE AckDlqEntry(b)
  <2>1. /\ dlq' = Without(dlq, b) /\ fate' = [fate EXCEPT ![b] = IF @ = "open" THEN "acked" ELSE @]
        /\ UNCHANGED <<breaches, task, evaluator>> /\ retry' \in Seq(Nat)
    BY <1>1 DEF AckDlqEntry, DlqInv
  <2>2. "acked" \in Fates \ {"open"}
    BY DEF Fates
  <2> QED BY <2>1, <2>2, LeavesQueueInv
<1>2. CASE RetryDlq
  <2>1. UNCHANGED <<breaches, task, dlq, fate, evaluator>> /\ retry' = dlq
    BY <1>2 DEF RetryDlq
  <2> QED BY <2>1 DEF DlqInv, Owners, BreachKept, Sending, Unmade
<1>3. CASE RetryOne
  <2>1. UNCHANGED <<breaches, task, evaluator>> /\ retry' \in Seq(Nat)
    BY <1>3 DEF RetryOne, DlqInv
  <2>2. CASE UNCHANGED <<dlq, fate>>
    BY <2>1, <2>2 DEF DlqInv, Owners, BreachKept, Sending, Unmade
  <2>3. CASE /\ dlq' = Without(dlq, Head(retry)) \/ dlq' = dlq
             /\ fate' = [fate EXCEPT ![Head(retry)] = "delivered"]
    <3>1. "delivered" \in Fates \ {"open"}
      BY DEF Fates
    <3> QED BY <2>1, <2>3, <3>1, LeavesQueueInv
  <2> QED BY <1>3, <2>2, <2>3 DEF RetryOne
<1> QED BY <1>1, <1>2, <1>3

\* A new breach has the evaluation that will make its task, or is dropped.
LEMMA NewBreachInv ==
    ASSUME DlqInv, breaches \in Seq(BreachRecords), breaches' \in Seq(BreachRecords),
           evaluator = [x \in Evaluators |-> evaluator[x]],
           NEW e \in Evaluators, StampBreach(e)
    PROVE  DlqInv'
<1> DEFINE v == evaluator[e]
           k == Len(breaches) + 1
<1>1. /\ v.pc = "stamp" /\ UNCHANGED <<dlq, retry>> /\ \E b : breaches' = Append(breaches, b)
  BY DEF StampBreach
<1>2. PICK m : m = [pc |-> "audit", left |-> v.left, at |-> v.at, window |-> v.window,
                    breach |-> k]
  OBVIOUS
<1>3. PICK n, t, f :
        /\ evaluator' = [evaluator EXCEPT ![e] = n]
        /\ task' = Append(task, t) /\ fate' = Append(fate, f)
        /\ \/ n = m /\ t = TaskAt("unmade") /\ f = "open"
           \/ n = IdleEvaluator /\ t = TaskAt("done") /\ f = "dropped"
  BY <1>2 DEF StampBreach
<1>4. /\ t \in TaskRecords /\ f \in Fates
      /\ n.pc = "audit" => n.breach = k /\ t.at = "unmade"
      /\ f = "open" => n.pc = "audit"
  <2>1. m.pc = "audit" /\ m.breach = k
    BY <1>2
  <2>2. IdleEvaluator.pc = "idle"
    BY DEF IdleEvaluator
  <2>3. \A name \in {"unmade", "done"} : TaskAt(name) \in TaskRecords /\ TaskAt(name).at = name
    BY SloAssumption DEF TaskAt, TaskRecords
  <2>4. t \in TaskRecords /\ (n = m => t.at = "unmade")
    BY <1>3, <2>1, <2>2, <2>3
  <2> QED BY <1>3, <2>1, <2>2, <2>4 DEF Fates
<1>5. /\ Len(breaches') = k /\ Len(breaches) \in Nat
      /\ DOMAIN breaches' = 1 .. k /\ DOMAIN breaches = 1 .. Len(breaches)
  BY <1>1
<1>6. /\ task' \in Seq(TaskRecords) /\ Len(task') = Len(task) + 1
      /\ \A i \in 1 .. Len(task) : task'[i] = task[i]
      /\ task'[Len(task) + 1] = t
  <2>1. task \in Seq(TaskRecords)
    BY DEF DlqInv
  <2> QED BY <1>3, <1>4, <2>1, AppendProperties
<1>7. /\ fate' \in Seq(Fates) /\ Len(fate') = Len(fate) + 1
      /\ \A i \in 1 .. Len(fate) : fate'[i] = fate[i]
      /\ fate'[Len(fate) + 1] = f
  BY <1>3, <1>4 DEF DlqInv
<1>8. \A x \in Evaluators : evaluator'[x] = IF x = e THEN n ELSE evaluator[x]
  BY <1>3
<1>9. Len(task) = Len(breaches) /\ Len(fate) = Len(breaches)
  BY DEF DlqInv
<1>10. Owners'
  <2> SUFFICES ASSUME NEW x \in Evaluators, evaluator'[x].pc = "audit"
               PROVE  /\ evaluator'[x].breach \in DOMAIN breaches'
                      /\ task'[evaluator'[x].breach].at = "unmade"
                      /\ \A y \in Evaluators :
                            evaluator'[y].pc = "audit" /\ evaluator'[y].breach = evaluator'[x].breach
                                => y = x
    BY DEF Owners
  <2>1. \A y \in Evaluators : y # e /\ evaluator[y].pc = "audit" => evaluator[y].breach \in 1 .. Len(breaches)
    BY <1>5 DEF DlqInv, Owners
  <2>2. k \notin 1 .. Len(breaches) /\ k \in 1 .. k
    BY <1>5
  <2>3. CASE x = e
    <3>1. evaluator'[x].breach = k /\ t.at = "unmade"
      BY <1>4, <1>8, <2>3
    <3>2. task'[k].at = "unmade"
      BY <1>6, <1>9, <3>1
    <3>3. \A y \in Evaluators : y # e /\ evaluator'[y].pc = "audit" => evaluator'[y].breach # k
      BY <1>8, <2>1, <2>2
    <3> QED BY <1>5, <2>2, <2>3, <3>1, <3>2, <3>3
  <2>4. CASE x # e
    <3>1. evaluator'[x] = evaluator[x] /\ evaluator[x].breach \in 1 .. Len(breaches)
      BY <1>8, <2>1, <2>4
    <3>2. /\ task[evaluator[x].breach].at = "unmade"
          /\ \A y \in Evaluators :
                evaluator[y].pc = "audit" /\ evaluator[y].breach = evaluator[x].breach => y = x
      BY <3>1 DEF DlqInv, Owners
    <3>3. task'[evaluator[x].breach].at = "unmade"
      BY <1>6, <1>9, <3>1, <3>2
    <3>4. evaluator[x].breach \in 1 .. k /\ evaluator[x].breach # k
      BY <1>5, <3>1
    <3>5. ASSUME NEW y \in Evaluators, evaluator'[y].pc = "audit",
                 evaluator'[y].breach = evaluator'[x].breach
          PROVE  y = x
      <4>1. y # e
        BY <1>4, <1>8, <3>1, <3>4, <3>5
      <4> QED BY <1>8, <3>1, <3>2, <3>5, <4>1
    <3> QED BY <1>5, <3>1, <3>3, <3>4, <3>5
  <2> QED BY <2>3, <2>4
<1>11. BreachKept'
  <2> SUFFICES ASSUME NEW x \in 1 .. k, fate'[x] = "open"
               PROVE  \/ Unmade(x)' \/ task'[x].at = "send" \/ task'[x].at = "dlq"
                      \/ \E i \in DOMAIN dlq : dlq[i] = x
    BY <1>1, <1>5 DEF BreachKept, Sending, Unmade
  <2>1. CASE x = k
    <3>1. n.pc = "audit" /\ n.breach = k
      BY <1>4, <1>7, <1>9, <2>1
    <3>2. evaluator'[e].pc = "audit" /\ evaluator'[e].breach = x
      BY <1>8, <2>1, <3>1
    <3> QED BY <3>2 DEF Unmade
  <2>2. CASE x \in 1 .. Len(breaches)
    <3>1. fate[x] = "open" /\ task'[x] = task[x] /\ x \in DOMAIN breaches
      BY <1>5, <1>6, <1>7, <1>9, <2>2
    <3>2. Unmade(x) \/ task[x].at = "send" \/ task[x].at = "dlq" \/ \E i \in DOMAIN dlq : dlq[i] = x
      BY <3>1 DEF DlqInv, BreachKept, Sending
    <3>3. Unmade(x) => Unmade(x)'
      <4> SUFFICES ASSUME NEW y \in Evaluators, evaluator[y].pc = "audit", evaluator[y].breach = x
                   PROVE  Unmade(x)'
        BY DEF Unmade
      <4>1. y # e
        BY <1>1
      <4>2. evaluator'[y] = evaluator[y]
        BY <1>8, <4>1
      <4> QED BY <4>2 DEF Unmade
    <3> QED BY <3>1, <3>2, <3>3
  <2> QED BY <1>5, <2>1, <2>2
<1> QED BY <1>1, <1>5, <1>6, <1>7, <1>9, <1>10, <1>11 DEF DlqInv

\* The evaluation of a breach makes its task, or ends without.
LEMMA FireInv ==
    ASSUME DlqInv, breaches \in Seq(BreachRecords), evaluator = [x \in Evaluators |-> evaluator[x]],
           NEW e \in Evaluators, evaluator[e].pc = "audit", NEW n, n.pc # "audit",
           evaluator' = [evaluator EXCEPT ![e] = n],
           NEW t \in TaskRecords, task' = [task EXCEPT ![evaluator[e].breach] = t],
           \/ t.at \in {"send", "dlq"} /\ fate' = fate
           \/ fate' = [fate EXCEPT ![evaluator[e].breach] = "dropped"],
           UNCHANGED <<breaches, dlq, retry>>
    PROVE  DlqInv'
<1>1. PICK b : b = evaluator[e].breach
  OBVIOUS
<1>2. /\ b \in DOMAIN breaches /\ DOMAIN breaches = 1 .. Len(breaches)
      /\ Len(task) = Len(breaches) /\ Len(fate) = Len(breaches)
      /\ \A x \in Evaluators : evaluator[x].pc = "audit" /\ evaluator[x].breach = b => x = e
  BY <1>1 DEF DlqInv, Owners
<1>3. /\ task' \in Seq(TaskRecords) /\ Len(task') = Len(task)
      /\ \A j \in 1 .. Len(task) : task'[j] = IF j = b THEN t ELSE task[j]
  <2>1. task \in Seq(TaskRecords)
    BY DEF DlqInv
  <2>2. task' = [task EXCEPT ![b] = t]
    BY <1>1
  <2>3. b \in 1 .. Len(task)
    BY <1>2
  <2>4. t \in TaskRecords
    OBVIOUS
  <2>5. PICK u : u = task'
    OBVIOUS
  <2>6. u = [task EXCEPT ![b] = t]
    BY <2>2, <2>5
  <2>7. /\ u \in Seq(TaskRecords) /\ Len(u) = Len(task)
        /\ \A j \in 1 .. Len(task) : u[j] = IF j = b THEN t ELSE task[j]
    BY <2>1, <2>3, <2>4, <2>6, OneElement
  <2> QED BY <2>5, <2>7
<1>4. /\ fate' \in Seq(Fates) /\ Len(fate') = Len(fate)
      /\ \A j \in 1 .. Len(fate) : j # b => fate'[j] = fate[j]
      /\ fate'[b] = "open" => t.at \in {"send", "dlq"}
  <2>1. CASE t.at \in {"send", "dlq"} /\ fate' = fate
    BY <2>1 DEF DlqInv
  <2>2. CASE fate' = [fate EXCEPT ![b] = "dropped"]
    <3>1. "dropped" \in Fates
      BY DEF Fates
    <3>2. /\ fate' \in Seq(Fates) /\ Len(fate') = Len(fate)
          /\ \A j \in 1 .. Len(fate) : fate'[j] = IF j = b THEN "dropped" ELSE fate[j]
      BY <1>2, <2>2, <3>1, FateOf
    <3> QED BY <1>2, <3>2
  <2> QED BY <1>1, <2>1, <2>2
<1>5. \A x \in Evaluators : evaluator'[x] = IF x = e THEN n ELSE evaluator[x]
  OBVIOUS
<1>6. \A x \in Evaluators : evaluator'[x].pc = "audit" =>
          x # e /\ evaluator'[x] = evaluator[x] /\ evaluator[x].breach # b
  BY <1>2, <1>5
<1>7. Owners'
  <2> SUFFICES ASSUME NEW x \in Evaluators, evaluator'[x].pc = "audit"
               PROVE  /\ evaluator'[x].breach \in DOMAIN breaches
                      /\ task'[evaluator'[x].breach].at = "unmade"
                      /\ \A y \in Evaluators :
                            evaluator'[y].pc = "audit" /\ evaluator'[y].breach = evaluator'[x].breach
                                => y = x
    BY DEF Owners
  <2>1. evaluator'[x] = evaluator[x] /\ evaluator[x].breach # b
    BY <1>6
  <2>2. /\ evaluator[x].breach \in DOMAIN breaches /\ task[evaluator[x].breach].at = "unmade"
        /\ \A y \in Evaluators :
              evaluator[y].pc = "audit" /\ evaluator[y].breach = evaluator[x].breach => y = x
    BY <2>1 DEF DlqInv, Owners
  <2>3. task'[evaluator[x].breach].at = "unmade"
    BY <1>2, <1>3, <2>1, <2>2
  <2> QED BY <1>6, <2>1, <2>2, <2>3
<1>8. BreachKept'
  <2> SUFFICES ASSUME NEW x \in DOMAIN breaches, fate'[x] = "open"
               PROVE  \/ Unmade(x)' \/ task'[x].at = "send" \/ task'[x].at = "dlq"
                      \/ \E i \in DOMAIN dlq : dlq[i] = x
    BY DEF BreachKept, Sending, Unmade
  <2>1. CASE x = b
    <3>1. task'[x] = t
      BY <1>2, <1>3, <2>1
    <3> QED BY <1>4, <2>1, <3>1
  <2>2. CASE x # b
    <3>1. fate[x] = "open" /\ task'[x] = task[x]
      BY <1>2, <1>3, <1>4, <2>2
    <3>2. Unmade(x) \/ task[x].at = "send" \/ task[x].at = "dlq" \/ \E i \in DOMAIN dlq : dlq[i] = x
      BY <3>1 DEF DlqInv, BreachKept, Sending
    <3>3. Unmade(x) => Unmade(x)'
      <4> SUFFICES ASSUME NEW y \in Evaluators, evaluator[y].pc = "audit", evaluator[y].breach = x
                   PROVE  Unmade(x)'
        BY DEF Unmade
      <4>1. evaluator'[y] = evaluator[y]
        BY <1>1, <1>5, <2>2
      <4> QED BY <4>1 DEF Unmade
    <3> QED BY <3>1, <3>2, <3>3
  <2> QED BY <2>1, <2>2
<1> QED BY <1>2, <1>3, <1>4, <1>7, <1>8 DEF DlqInv

\* An evaluation goes on past its breach, or ends.
LEMMA EvaluationEndsInv ==
    ASSUME SloInv, NEW e \in Evaluators, FireWebhook(e) \/ EvaluateEnds(e)
    PROVE  SloInv'
<1>0. /\ CooldownInv /\ DlqInv /\ breaches \in Seq(BreachRecords) /\ EvaluatorShape(evaluator[e])
      /\ evaluator = [x \in Evaluators |-> evaluator[x]]
  BY DEF SloInv, CooldownInv
<1>1. CooldownInv'
  BY <1>0, FireCooldown
<1>2. \A name \in {"dlq", "done"} : TaskAt(name) \in TaskRecords /\ TaskAt(name).at = name
  BY SloAssumption DEF TaskAt, TaskRecords
<1>3. DlqInv'
  <2>1. CASE FireWebhook(e)
    <3>1. PICK n : n = Leave(e, evaluator[e].window)
      OBVIOUS
    <3>2. evaluator[e].pc = "audit" /\ n.pc \in {"idle", "check"}
      BY <1>0, <2>1, <3>1, LeaveShape DEF FireWebhook
    <3>3. PICK t : t = IF Webhook THEN Attempt(1) ELSE TaskAt("dlq")
      OBVIOUS
    <3>4. t \in TaskRecords /\ t.at \in {"send", "dlq"}
      BY <3>3, SloAssumption DEF Attempt, TaskAt, TaskRecords
    <3>5. /\ evaluator' = [evaluator EXCEPT ![e] = n]
          /\ task' = [task EXCEPT ![evaluator[e].breach] = t]
          /\ UNCHANGED <<breaches, dlq, fate, retry>>
      BY <2>1, <3>1, <3>3 DEF FireWebhook
    <3> QED BY <1>0, <3>2, <3>4, <3>5, FireInv
  <2>2. CASE EvaluateEnds(e)
    <3>1. /\ evaluator' = [evaluator EXCEPT ![e] = IdleEvaluator] /\ IdleEvaluator.pc = "idle"
          /\ UNCHANGED <<breaches, dlq, retry>>
      BY <2>2 DEF EvaluateEnds, IdleEvaluator
    <3>2. PICK n : n = IdleEvaluator
      OBVIOUS
    <3>3. n.pc # "audit" /\ evaluator' = [evaluator EXCEPT ![e] = n]
      BY <3>1, <3>2
    <3>4. CASE evaluator[e].pc = "audit"
      <4>1. PICK t : t = TaskAt("done")
        OBVIOUS
      <4>2. /\ task' = [task EXCEPT ![evaluator[e].breach] = t]
            /\ fate' = [fate EXCEPT ![evaluator[e].breach] = "dropped"]
        BY <2>2, <3>4, <4>1 DEF EvaluateEnds
      <4> QED BY <1>0, <1>2, <3>1, <3>3, <3>4, <4>1, <4>2, FireInv
    <3>5. CASE evaluator[e].pc # "audit"
      <4>1. UNCHANGED <<task, fate>>
        BY <2>2, <3>5 DEF EvaluateEnds
      <4> QED BY <1>0, <3>1, <3>3, <3>5, <4>1, OwnersRest
    <3> QED BY <3>4, <3>5
  <2> QED BY <2>1, <2>2
<1> QED BY <1>1, <1>3 DEF SloInv

\* Every step of the service levels keeps the invariant.
LEMMA SloStep == ASSUME SloInv, [SloNext]_sloVars PROVE SloInv'
<1>0. /\ CooldownInv /\ DlqInv /\ breaches \in Seq(BreachRecords) /\ now \in Nat /\ now >= 1
      /\ evaluator = [x \in Evaluators |-> evaluator[x]]
  BY DEF SloInv, CooldownInv
<1>1. ASSUME now' \in Nat, now' >= 1,
             UNCHANGED <<lastBreach, evaluator, breaches, task, dlq, fate, retry>>
      PROVE  SloInv'
  BY <1>0, <1>1, CooldownRest, DlqRest DEF SloInv
<1>2. CASE Pass
  BY <1>0, <1>1, <1>2 DEF Pass
<1>3. CASE \E r \in Recorders : Recording(r)
  <2>1. PICK r \in Recorders : Recording(r)
    BY <1>3
  <2>2. UNCHANGED <<now, lastBreach, evaluator, breaches, task, dlq, fate, retry>>
    BY <2>1 DEF Recording, RecordEvent, WriteCounter, Evict
  <2> QED BY <1>0, <1>1, <2>2
<1>4. CASE \E e \in Evaluators : Evaluating(e)
  <2>1. PICK e \in Evaluators : Evaluating(e)
    BY <1>4
  <2>2. CASE StampBreach(e)
    <3>1. CooldownInv'
      BY <1>0, <2>2, StampCooldown
    <3>2. breaches' \in Seq(BreachRecords)
      BY <3>1 DEF CooldownInv
    <3> QED BY <1>0, <2>2, <3>1, <3>2, NewBreachInv DEF SloInv
  <2> QED BY <2>1, <2>2, EvaluateInv, CheckCooldownInv, EvaluationEndsInv DEF Evaluating
<1>5. ASSUME NEW b, \/ b \in DOMAIN breaches /\ (Sends(b) \/ AckDlqEntry(b))
                    \/ RetryDlq \/ RetryOne
      PROVE  SloInv'
  <2>1. UNCHANGED <<now, lastBreach, evaluator, breaches>>
    BY <1>5 DEF Sends, Deliver, DeliveryFails, PushDlq, TrimDlq, TaskEnds, AckDlqEntry,
                RetryDlq, RetryOne
  <2>2. CooldownInv'
    BY <1>0, <2>1, CooldownRest
  <2>3. DlqInv'
    BY <1>0, <1>5, SendsInv, TrimInv, QueueInv DEF Sends
  <2> QED BY <2>2, <2>3 DEF SloInv
<1>6. CASE UNCHANGED sloVars
  BY <1>0, <1>1, <1>6 DEF sloVars
<1> QED BY <1>2, <1>3, <1>4, <1>5, <1>6 DEF SloNext

\* The invariant behind the breach detector, over stamps, audits and tasks that
\* end at any step: the stamp of a window is that of its last breach, an
\* evaluation about to stamp is a cooldown away from the last breach it could
\* see, and an open breach has the evaluation that will make its task, a task
\* that sends it, or a place in the queue.
THEOREM SloInvariant == SloSpec => []SloInv
<1>1. SloInit => SloInv
  <2> SUFFICES ASSUME SloInit PROVE SloInv
    OBVIOUS
  <2>1. /\ now = 1 /\ lastBreach = [w \in Windows |-> 0]
        /\ evaluator = [e \in Evaluators |-> IdleEvaluator]
        /\ breaches = << >> /\ task = << >> /\ dlq = << >> /\ fate = << >>
        /\ retry = << >> /\ IdleEvaluator.pc = "idle"
    BY DEF SloInit, IdleEvaluator
  <2>2. << >> \in Seq(TaskRecords) /\ << >> \in Seq(Fates) /\ << >> \in Seq(Nat)
        /\ << >> \in Seq(BreachRecords)
    OBVIOUS
  <2>3. Len(<< >>) = 0 /\ DOMAIN << >> = {} /\ 1 .. 0 = {}
    OBVIOUS
  <2>4. CooldownInv
    BY <2>1, <2>2, <2>3 DEF CooldownInv, EvaluatorShape, StampIsLast, SeenBefore,
                          CooledDown, CooldownHolds
  <2>5. DlqInv
    BY <2>1, <2>2, <2>3 DEF DlqInv, BreachKept, Owners
  <2> QED BY <2>4, <2>5 DEF SloInv
<1> QED BY <1>1, SloStep, PTL DEF SloSpec

\* For any number of recorders, evaluations, breaches and retries that overlap
\* and end at any step (breach_detector.py): an open breach is on its way to be
\* reported or waits in the dead letter queue, and a window is not reported
\* within the cooldown of the last breach stamped before the evaluation looked.
THEOREM BreachesAreReported == SloSpec => []BreachesReported
<1>1. SloInv => BreachesReported
  BY DEF SloInv, CooldownInv, DlqInv, BreachesReported
<1> QED BY <1>1, SloInvariant, PTL

-----------------------------------------------------------------------------
(***************************************************************************)
(* GovernanceRegisters.  A call about to write the supplier has read every *)
(* trigger it knew of.  A decision is written by the one operator that     *)
(* read the request as pending.  A notice of a breach is stored or follows *)
(* a statement that failed, and an aborted transaction has such a one.     *)
(***************************************************************************)

\* Clerk c is about to write the supplier.
OnSupplier(c) == clerk[c].pc # "idle" /\ RowOf(clerk[c].op) = "supplier"

RegisterInv ==
    /\ clerk = [c \in Clerks |-> clerk[c]]
    /\ \A c \in Clerks : OnSupplier(c) => clerk[c].knew \subseteq clerk[c].seen.triggers
    /\ TriggersKept

\* Operator c is about to write a decision on approval a.
Decides(c, a) == decider[c].pc = "write" /\ decider[c].id = a

OversightInv ==
    /\ decider = [c \in Clerks |-> decider[c]]
    /\ \A a : a \notin clash =>
          /\ \A c, d \in Clerks : Decides(c, a) /\ Decides(d, a) => c = d
          /\ \A c \in Clerks : Decides(c, a) /\ a \in DOMAIN approvals => approvals[a] = "pending"

NotifierFields == {"pc", "next", "counted", "failed", "queued", "template", "broken"}

\* The notifier at work: its targets up to the next are accounted for.
NotifierShape(v) ==
    /\ DOMAIN v = NotifierFields
    /\ v.pc \in {"send", "commit", "queue", "done"}
    /\ v.next \in Nat /\ v.next >= 1
    /\ v.pc = "queue" => v.next > 1
    /\ v.pc = "commit" => v.next <= Len(Targets)
    /\ v.pc = "done" => v.next > Len(Targets)
    /\ v.broken => \E k \in v.failed : k < v.next
    /\ v.failed \subseteq Nat

\* The targets before n are accounted for by the notices stored.
Accounted(v, R) ==
    /\ v.counted \subseteq R /\ R \ v.counted \subseteq v.failed
    /\ v.template => \A i \in 1 .. v.next - 1 : i \notin R => \E k \in v.failed : k <= i

NotifierInv ==
    /\ notifier.pc \in {"idle", "send", "commit", "queue", "done"}
    /\ notifier.pc # "idle" => NotifierShape(notifier) /\ Accounted(notifier, rows)

GovernanceInv == RegisterInv /\ OversightInv /\ NotifierInv

\* A call reads its row.
LEMMA ReadRowInv ==
    ASSUME RegisterInv, NEW c \in Clerks, NEW op, NEW t, ReadRow(c, op, t)
    PROVE  RegisterInv'
<1>1. PICK n : n = [pc |-> "write", op |-> op, trigger |-> t, at |-> day,
                    seen |-> IF RowOf(op) = "supplier" THEN supplier ELSE record,
                    knew |-> raised \ stale]
  OBVIOUS
<1>2. /\ n.pc = "write" /\ n.op = op /\ (RowOf(op) = "supplier" => n.seen = supplier)
      /\ n.knew = raised \ stale
      /\ clerk[c].pc = "idle" /\ clerk' = [clerk EXCEPT ![c] = n]
      /\ UNCHANGED <<supplier, raised, stale>>
  BY <1>1 DEF ReadRow
<1>3. /\ clerk' = [d \in Clerks |-> clerk'[d]]
      /\ \A d \in Clerks : clerk'[d] = IF d = c THEN n ELSE clerk[d]
  BY <1>2 DEF RegisterInv
<1>4. ASSUME NEW d \in Clerks, OnSupplier(d)'
      PROVE  clerk'[d].knew \subseteq clerk'[d].seen.triggers
  <2>1. CASE d = c
    BY <1>2, <1>3, <1>4, <2>1 DEF OnSupplier, RegisterInv, TriggersKept
  <2>2. CASE d # c
    BY <1>3, <1>4, <2>2 DEF OnSupplier, RegisterInv
  <2> QED BY <2>1, <2>2
<1>5. TriggersKept'
  BY <1>2 DEF RegisterInv, TriggersKept
<1> QED BY <1>3, <1>4, <1>5 DEF RegisterInv

\* A call writes its row, or its update is rolled back.
LEMMA WriteRowInv ==
    ASSUME RegisterInv, NEW c \in Clerks, WriteRow(c)
    PROVE  RegisterInv'
<1> DEFINE v == clerk[c]
           lost == raised \ v.knew
<1>1. v.pc = "write" /\ clerk' = [clerk EXCEPT ![c] = Idle] /\ Idle.pc = "idle"
  BY DEF WriteRow, Idle
<1>2. /\ clerk' = [d \in Clerks |-> clerk'[d]]
      /\ \A d \in Clerks : clerk'[d] = IF d = c THEN Idle ELSE clerk[d]
  BY <1>1 DEF RegisterInv
<1>3. (\A d \in Clerks : OnSupplier(d) => clerk[d].knew \subseteq clerk[d].seen.triggers)'
  BY <1>1, <1>2 DEF OnSupplier, RowOf, RegisterInv
<1>4. TriggersKept'
  <2>1. CASE UNCHANGED <<supplier, raised, stale>>
    BY <2>1 DEF RegisterInv, TriggersKept
  <2>2. CASE /\ v.op = "trigger" /\ supplier' = Reevaluated(v.seen, v.trigger)
             /\ \E heard \in {{}, {v.trigger}} :
                  raised' = raised \union heard /\ stale' = (stale \union lost) \ heard
    <3>1. PICK heard \in {{}, {v.trigger}} :
             raised' = raised \union heard /\ stale' = (stale \union lost) \ heard
      BY <2>2
    <3>2. OnSupplier(c)
      BY <1>1, <2>2 DEF OnSupplier, RowOf
    <3>3. v.knew \subseteq v.seen.triggers
      BY <3>2 DEF RegisterInv
    <3>4. /\ supplier'.triggers = v.seen.triggers \union {v.trigger}
          /\ supplier'.risk = "re_evaluation_required"
      BY <2>2 DEF Reevaluated
    <3>5. raised' \ stale' \subseteq v.knew \union {v.trigger}
      BY <3>1
    <3>6. supplier'.risk # "low"
      BY <3>4
    <3> QED BY <3>3, <3>4, <3>5, <3>6 DEF TriggersKept
  <2>3. CASE v.op = "complete" /\ raised' = lost /\ \E heard \in {{}} : stale' = (stale \union lost) \ heard
    BY <2>3 DEF TriggersKept
  <2>4. CASE /\ RowOf(v.op) # "supplier" /\ supplier' = supplier /\ raised' = raised
             /\ stale' = stale
    BY <2>4 DEF RegisterInv, TriggersKept
  <2>5. \/ UNCHANGED <<supplier, raised, stale>>
        \/ /\ supplier' = CASE v.op = "trigger" -> Reevaluated(v.seen, v.trigger)
                            [] v.op = "complete" -> Reviewed(v.at)
                            [] OTHER -> supplier
           /\ \E heard \in IF v.op = "trigger" THEN {{}, {v.trigger}} ELSE {{}} :
                /\ raised' = IF v.op = "complete" THEN lost ELSE raised \union heard
                /\ stale' = IF RowOf(v.op) = "supplier" THEN (stale \union lost) \ heard ELSE stale
    BY DEF WriteRow
  <2> QED
    <3>1. CASE v.op = "trigger"
      BY <2>1, <2>2, <2>5, <3>1 DEF RowOf
    <3>2. CASE v.op = "complete"
      BY <2>1, <2>3, <2>5, <3>2 DEF RowOf
    <3>3. CASE v.op \notin {"trigger", "complete"}
      BY <2>1, <2>4, <2>5, <3>3 DEF RowOf
    <3> QED BY <3>1, <3>2, <3>3
<1> QED BY <1>2, <1>3, <1>4 DEF RegisterInv

\* The registers of suppliers, records and assessments.
LEMMA RegisterStep == ASSUME RegisterInv, [RegisterNext]_registerVars PROVE RegisterInv'
<1>1. ASSUME UNCHANGED <<supplier, raised, stale, clerk>> PROVE RegisterInv'
  BY <1>1 DEF RegisterInv, OnSupplier, TriggersKept
<1>2. CASE UNCHANGED registerVars
  BY <1>1, <1>2 DEF registerVars
<1>3. CASE DayPasses \/ FlagReassessment
  BY <1>1, <1>3 DEF DayPasses, FlagReassessment
<1>4. CASE \E s, l \in {1, 5} : CreateAssessment(s, l) \/ UpdateAssessment(s, l)
  BY <1>1, <1>4 DEF CreateAssessment, UpdateAssessment
<1>5. CASE \E c \in Clerks, t \in Triggers : TriggerRiskReEvaluation(c, t)
  BY <1>5, ReadRowInv DEF TriggerRiskReEvaluation
<1>6. CASE \E c \in Clerks : \/ CompleteSupplierReview(c) \/ UpdateGovernanceRecord(c)
                             \/ CompleteReview(c)
  BY <1>6, ReadRowInv DEF CompleteSupplierReview, UpdateGovernanceRecord, CompleteReview
<1>7. CASE \E c \in Clerks : WriteRow(c)
  BY <1>7, WriteRowInv
<1> QED BY <1>2, <1>3, <1>4, <1>5, <1>6, <1>7 DEF RegisterNext
\* A decision, or a session to count, is read.
LEMMA ReadApprovalInv ==
    ASSUME OversightInv, NEW c \in Clerks, NEW a, NEW v, ReadApproval(c, a, v)
    PROVE  OversightInv'
<1>1. PICK n : n = [pc |-> "write", id |-> a, verdict |-> v]
  OBVIOUS
<1>2. /\ n.pc = "write" /\ n.id = a /\ decider[c].pc = "idle"
      /\ decider' = [decider EXCEPT ![c] = n] /\ approvals' = approvals
      /\ a \in DOMAIN approvals /\ approvals[a] = "pending"
      /\ clash' = clash \union
            ({a} \intersect {decider[x].id : x \in {y \in Clerks : decider[y].pc = "write"}})
  BY <1>1 DEF ReadApproval, MayDecide
<1>3. /\ decider' = [d \in Clerks |-> decider'[d]]
      /\ \A d \in Clerks : decider'[d] = IF d = c THEN n ELSE decider[d]
  BY <1>2 DEF OversightInv
<1>4. ASSUME NEW b, b \notin clash'
      PROVE  /\ \A d, e \in Clerks : Decides(d, b)' /\ Decides(e, b)' => d = e
             /\ \A d \in Clerks : Decides(d, b)' /\ b \in DOMAIN approvals' =>
                   approvals'[b] = "pending"
  <2>1. b \notin clash
    BY <1>2, <1>4
  <2>2. b = a => \A d \in Clerks : ~Decides(d, b)
    BY <1>2, <1>4 DEF Decides
  <2>3. \A d \in Clerks : Decides(d, b)' <=> IF d = c THEN b = a ELSE Decides(d, b)
    BY <1>2, <1>3 DEF Decides
  <2> QED BY <1>2, <2>1, <2>2, <2>3 DEF OversightInv
<1> QED BY <1>3, <1>4 DEF OversightInv

\* A decider ends, or starts on something else than a decision.
LEMMA DeciderMoves ==
    ASSUME OversightInv, NEW c \in Clerks, NEW n, n.pc # "write",
           decider' = [decider EXCEPT ![c] = n], clash' = clash,
           \A b \in DOMAIN approvals' :
              \/ b \in DOMAIN approvals /\ approvals'[b] = approvals[b]
              \/ Decides(c, b)
    PROVE  OversightInv'
<1>1. /\ decider' = [d \in Clerks |-> decider'[d]]
      /\ \A d \in Clerks : decider'[d] = IF d = c THEN n ELSE decider[d]
  BY DEF OversightInv
<1>2. ASSUME NEW b, b \notin clash
      PROVE  /\ \A d, e \in Clerks : Decides(d, b)' /\ Decides(e, b)' => d = e
             /\ \A d \in Clerks : Decides(d, b)' /\ b \in DOMAIN approvals' =>
                   approvals'[b] = "pending"
  <2>1. \A d \in Clerks : Decides(d, b)' => d # c /\ Decides(d, b)
    BY <1>1 DEF Decides
  <2> QED BY <1>2, <2>1 DEF OversightInv
<1> QED BY <1>1, <1>2 DEF OversightInv

\* The approvals and their deciders keep the invariant, and a decision stands.
LEMMA OversightStep ==
    ASSUME OversightInv, [OversightNext]_oversightVars
    PROVE  /\ OversightInv'
           /\ \A a \in DOMAIN approvals \intersect DOMAIN approvals' :
                 approvals[a] # "pending" /\ a \notin clash => approvals'[a] = approvals[a]
<1> DEFINE Stands == \A a \in DOMAIN approvals \intersect DOMAIN approvals' :
                 approvals[a] # "pending" /\ a \notin clash => approvals'[a] = approvals[a]
<1>1. ASSUME UNCHANGED <<approvals, decider, clash>> PROVE OversightInv' /\ Stands
  BY <1>1 DEF OversightInv, Decides
<1>2. CASE UNCHANGED oversightVars
  BY <1>1, <1>2 DEF oversightVars
<1>3. CASE \E on \in BOOLEAN : SetKillSwitch(on)
  BY <1>1, <1>3 DEF SetKillSwitch
<1>4. CASE \E a \in Approvals : CreateApproval(a)
  <2>1. PICK a \in Approvals : CreateApproval(a)
    BY <1>4
  <2>2. /\ a \notin DOMAIN approvals /\ decider' = decider /\ clash' = clash
        /\ approvals' = [x \in DOMAIN approvals \union {a} |->
                            IF x = a THEN "pending" ELSE approvals[x]]
    BY <2>1 DEF CreateApproval
  <2>3. Stands
    BY <2>2
  <2>4. \A b : \A d \in Clerks : Decides(d, b)' <=> Decides(d, b)
    BY <2>2 DEF Decides
  <2>5. OversightInv'
    BY <2>2, <2>4 DEF OversightInv
  <2> QED BY <2>3, <2>5
<1>5. CASE ApprovalsExpire
  <2>1. approvals' = << >> /\ decider' = decider /\ clash' = clash /\ DOMAIN << >> = {}
    BY <1>5 DEF ApprovalsExpire
  <2>2. \A b : \A d \in Clerks : Decides(d, b)' <=> Decides(d, b)
    BY <2>1 DEF Decides
  <2> QED BY <2>1, <2>2 DEF OversightInv
<1>6. CASE \E c \in Clerks, a \in Approvals, v \in {"approved", "rejected"} : ReadApproval(c, a, v)
  <2>1. approvals' = approvals
    BY <1>6 DEF ReadApproval
  <2>2. OversightInv'
    BY <1>6, ReadApprovalInv
  <2> QED BY <2>1, <2>2
<1>7. CASE \E c \in Clerks : CountSession(c) \/ StoreCount(c)
  <2>1. PICK c \in Clerks : CountSession(c) \/ StoreCount(c)
    BY <1>7
  <2>2. PICK n : n = IF CountSession(c) THEN [pc |-> "count", read |-> counted.value] ELSE Idle
    OBVIOUS
  <2>3. n.pc # "write" /\ decider' = [decider EXCEPT ![c] = n] /\ clash' = clash
        /\ approvals' = approvals
    BY <2>1, <2>2 DEF CountSession, StoreCount, Idle
  <2> QED BY <2>3, DeciderMoves
<1>8. CASE \E c \in Clerks : WriteApproval(c)
  <2>1. PICK c \in Clerks : WriteApproval(c)
    BY <1>8
  <2>2. PICK n : n = Idle
    OBVIOUS
  <2>3. /\ n.pc # "write" /\ decider' = [decider EXCEPT ![c] = n] /\ clash' = clash
        /\ decider[c].pc = "write"
        /\ approvals' = [x \in DOMAIN approvals \union {decider[c].id} |->
                           IF x = decider[c].id THEN decider[c].verdict ELSE approvals[x]]
    BY <2>1, <2>2 DEF WriteApproval, Idle
  <2>4. \A b \in DOMAIN approvals' :
              \/ b \in DOMAIN approvals /\ approvals'[b] = approvals[b]
              \/ Decides(c, b)
    BY <2>3 DEF Decides
  <2>5. Stands
    BY <2>3 DEF OversightInv, Decides
  <2> QED BY <2>3, <2>4, <2>5, DeciderMoves
<1> QED BY <1>2, <1>3, <1>4, <1>5, <1>6, <1>7, <1>8 DEF OversightNext

\* The notifier passes target n: stored, or with a statement that failed.
LEMMA NextTarget ==
    ASSUME NEW v, NEW R, NotifierShape(v), Accounted(v, R), NEW n, NEW S,
           n.template = v.template, n.next = v.next + 1,
           v.counted \subseteq n.counted, v.failed \subseteq n.failed, R \subseteq S,
           n.counted \subseteq S, S \ n.counted \subseteq n.failed,
           n.template => v.next \in S \/ \E k \in n.failed : k <= v.next
    PROVE  Accounted(n, S)
<1>1. v.next \in Nat /\ v.next >= 1
  BY DEF NotifierShape
<1>2. ASSUME n.template, NEW i \in 1 .. n.next - 1, i \notin S
      PROVE  \E k \in n.failed : k <= i
  <2>1. CASE i = v.next
    BY <1>2, <2>1
  <2>2. CASE i # v.next
    <3>1. i \in 1 .. v.next - 1 /\ i \notin R /\ v.template
      BY <1>1, <1>2, <2>2
    <3>2. PICK k \in v.failed : k <= i
      BY <3>1 DEF Accounted
    <3> QED BY <3>2
  <2> QED BY <2>1, <2>2
<1> QED BY <1>2 DEF Accounted

\* The INSERT of a notice.
LEMMA SendNoticeInv == ASSUME NotifierInv, SendNotification PROVE NotifierInv'
<1> DEFINE v == notifier
<1>1. /\ v.pc = "send" /\ NotifierShape(v) /\ Accounted(v, rows) /\ rows' = rows
      /\ v.next <= Len(Targets) /\ v.next \in Nat /\ v.next >= 1 /\ v.failed \subseteq Nat
      /\ DOMAIN v = NotifierFields
  BY DEF SendNotification, NotifierInv, NotifierShape
<1>2. AfterNotice \in {"queue", "send"}
  BY DEF AfterNotice
<1>3. CASE notifier' = [v EXCEPT !.pc = "commit"]
  <2>1. PICK n : n = [v EXCEPT !.pc = "commit"]
    OBVIOUS
  <2>2. /\ DOMAIN n = NotifierFields /\ n.pc = "commit"
        /\ n.next = v.next /\ n.counted = v.counted /\ n.failed = v.failed
        /\ n.template = v.template /\ n.broken = v.broken
    BY <1>1, <2>1 DEF NotifierFields
  <2>3. NotifierShape(n)
    BY <1>1, <2>2 DEF NotifierShape
  <2>4. Accounted(n, rows)
    BY <1>1, <2>2 DEF Accounted
  <2> QED BY <1>1, <1>3, <2>1, <2>2, <2>3, <2>4 DEF NotifierInv
<1>4. CASE notifier' = [v EXCEPT !.failed = @ \union {v.next}, !.broken = TRUE,
                          !.next = @ + 1, !.pc = AfterNotice]
  <2>1. PICK n : n = [v EXCEPT !.failed = @ \union {v.next}, !.broken = TRUE,
                        !.next = @ + 1, !.pc = AfterNotice]
    OBVIOUS
  <2>2. /\ DOMAIN n = NotifierFields /\ n.pc = AfterNotice
        /\ n.next = v.next + 1 /\ n.counted = v.counted /\ n.failed = v.failed \union {v.next}
        /\ n.template = v.template
    BY <1>1, <2>1 DEF NotifierFields
  <2>3. NotifierShape(n)
    <3>1. v.next \in n.failed /\ v.next < n.next /\ n.failed \subseteq Nat
      BY <1>1, <2>2
    <3> QED BY <1>1, <1>2, <2>2, <3>1 DEF NotifierShape
  <2>4. Accounted(n, rows)
    <3>1. n.counted \subseteq rows /\ rows \ n.counted \subseteq n.failed
      BY <1>1, <2>2 DEF Accounted
    <3>2. v.next \in n.failed /\ v.next <= v.next
      BY <1>1, <2>2
    <3> QED BY <1>1, <2>2, <3>1, <3>2, NextTarget
  <2> QED BY <1>1, <1>2, <1>4, <2>1, <2>2, <2>3, <2>4 DEF NotifierInv
<1>5. CASE ~v.template /\ notifier' = [v EXCEPT !.next = @ + 1, !.pc = AfterNotice]
  <2>1. PICK n : n = [v EXCEPT !.next = @ + 1, !.pc = AfterNotice]
    OBVIOUS
  <2>2. /\ DOMAIN n = NotifierFields /\ n.pc = AfterNotice
        /\ n.next = v.next + 1 /\ n.counted = v.counted /\ n.failed = v.failed
        /\ n.template = v.template /\ n.broken = v.broken
    BY <1>1, <2>1 DEF NotifierFields
  <2>3. NotifierShape(n)
    <3>1. ASSUME n.broken PROVE \E k \in n.failed : k < n.next
      <4>1. PICK k \in v.failed : k < v.next
        BY <1>1, <2>2, <3>1 DEF NotifierShape
      <4> QED BY <1>1, <2>2, <4>1
    <3> QED BY <1>1, <1>2, <2>2, <3>1 DEF NotifierShape
  <2>4. Accounted(n, rows)
    BY <1>1, <1>5, <2>2 DEF Accounted
  <2> QED BY <1>1, <1>2, <1>5, <2>1, <2>2, <2>3, <2>4 DEF NotifierInv
<1> QED BY <1>3, <1>4, <1>5 DEF SendNotification

\* The commit of a notice.
LEMMA CommitNoticeInv == ASSUME NotifierInv, CommitNotification PROVE NotifierInv'
<1> DEFINE v == notifier
<1>1. /\ v.pc = "commit" /\ NotifierShape(v) /\ Accounted(v, rows)
      /\ v.next <= Len(Targets) /\ v.next \in Nat /\ v.next >= 1 /\ v.failed \subseteq Nat
      /\ DOMAIN v = NotifierFields
  BY DEF CommitNotification, NotifierInv, NotifierShape
<1>2. PICK raises, stored \in BOOLEAN :
        /\ raises \/ stored
        /\ rows' = IF stored THEN rows \union {v.next} ELSE rows
        /\ \E broken \in {raises, FALSE} :
             notifier' = [v EXCEPT
                !.counted = IF Counts(raises) THEN @ \union {v.next} ELSE @,
                !.failed = IF raises THEN @ \union {v.next} ELSE @,
                !.queued = @ \/ (IsRegulator(v.next) /\ Counts(raises)),
                !.broken = broken, !.next = @ + 1, !.pc = AfterNotice]
  BY DEF CommitNotification
<1>a. PICK broken \in {raises, FALSE} :
        notifier' = [v EXCEPT
                !.counted = IF Counts(raises) THEN @ \union {v.next} ELSE @,
                !.failed = IF raises THEN @ \union {v.next} ELSE @,
                !.queued = @ \/ (IsRegulator(v.next) /\ Counts(raises)),
                !.broken = broken, !.next = @ + 1, !.pc = AfterNotice]
  BY <1>2
<1>b. PICK n : n = notifier'
  OBVIOUS
<1>3. n = [v EXCEPT
                !.counted = IF Counts(raises) THEN @ \union {v.next} ELSE @,
                !.failed = IF raises THEN @ \union {v.next} ELSE @,
                !.queued = @ \/ (IsRegulator(v.next) /\ Counts(raises)),
                !.broken = broken, !.next = @ + 1, !.pc = AfterNotice]
  BY <1>a, <1>b
<1>4. /\ DOMAIN n = NotifierFields /\ n.pc = AfterNotice /\ n.next = v.next + 1
      /\ n.counted = IF Counts(raises) THEN v.counted \union {v.next} ELSE v.counted
      /\ n.failed = IF raises THEN v.failed \union {v.next} ELSE v.failed
      /\ n.template = v.template /\ n.broken = broken
  BY <1>1, <1>3 DEF NotifierFields
<1>5. AfterNotice \in {"queue", "send"}
  BY DEF AfterNotice
<1>6. NotifierShape(n)
  <2>1. n.failed \subseteq Nat
    BY <1>1, <1>4
  <2>2. ASSUME n.broken PROVE \E k \in n.failed : k < n.next
    <3>1. raises
      BY <1>4, <1>a, <2>2
    <3>2. v.next \in n.failed /\ v.next < n.next
      BY <1>1, <1>4, <3>1
    <3> QED BY <3>2
  <2> QED BY <1>1, <1>4, <1>5, <2>1, <2>2 DEF NotifierShape
<1>7. Accounted(n, rows')
  <2>1. n.counted \subseteq rows' /\ rows' \ n.counted \subseteq n.failed
    <3>1. v.counted \subseteq rows /\ rows \ v.counted \subseteq v.failed
      BY <1>1 DEF Accounted
    <3>2. CASE raises
      BY <1>2, <1>4, <3>1, <3>2 DEF Counts
    <3>3. CASE ~raises
      BY <1>2, <1>4, <3>1, <3>3 DEF Counts
    <3> QED BY <3>2, <3>3
  <2>2. v.next \in rows' \/ (v.next \in n.failed /\ v.next <= v.next)
    BY <1>1, <1>2, <1>4
  <2>3. /\ rows \subseteq rows' /\ v.failed \subseteq n.failed /\ v.counted \subseteq n.counted
    BY <1>2, <1>4
  <2> QED BY <1>1, <1>4, <2>1, <2>2, <2>3, NextTarget
<1> QED BY <1>b, <1>4, <1>5, <1>6, <1>7 DEF NotifierInv

\* The regulator is queued, and a call ends.
LEMMA QueueNoticeInv == ASSUME NotifierInv, QueueRegulator \/ EndNotify PROVE NotifierInv'
<1> DEFINE v == notifier
<1>1. /\ NotifierShape(v) /\ Accounted(v, rows) /\ rows' = rows
      /\ v.next \in Nat /\ v.next >= 1 /\ v.failed \subseteq Nat
      /\ DOMAIN v = NotifierFields
  BY DEF QueueRegulator, EndNotify, NotifierInv, NotifierShape
<1>2. PICK n : n = notifier'
  OBVIOUS
<1>3. CASE QueueRegulator
  <2>1. PICK ok \in BOOLEAN :
          n = [v EXCEPT !.pc = "send", !.broken = @ \/ ~ok,
                  !.failed = IF ok THEN @ ELSE @ \union {v.next - 1}]
    BY <1>2, <1>3 DEF QueueRegulator
  <2>2. v.pc = "queue" /\ v.next > 1
    BY <1>1, <1>3 DEF QueueRegulator, NotifierShape
  <2>3. /\ DOMAIN n = NotifierFields /\ n.pc = "send" /\ n.next = v.next
        /\ n.counted = v.counted /\ n.template = v.template
        /\ n.broken = (v.broken \/ ~ok)
        /\ n.failed = IF ok THEN v.failed ELSE v.failed \union {v.next - 1}
    BY <1>1, <2>1 DEF NotifierFields
  <2>4. NotifierShape(n)
    <3>1. n.failed \subseteq Nat
      BY <1>1, <2>2, <2>3
    <3>2. ASSUME n.broken PROVE \E k \in n.failed : k < n.next
      <4>1. CASE ~ok
        <5>1. v.next - 1 \in n.failed /\ v.next - 1 < n.next
          BY <1>1, <2>3, <4>1
        <5> QED BY <5>1
      <4>2. CASE ok
        BY <1>1, <2>3, <3>2, <4>2 DEF NotifierShape
      <4> QED BY <4>1, <4>2
    <3> QED BY <1>1, <2>3, <3>1, <3>2 DEF NotifierShape
  <2>5. Accounted(n, rows)
    BY <1>1, <2>3 DEF Accounted
  <2> QED BY <1>1, <1>2, <2>3, <2>4, <2>5 DEF NotifierInv
<1>4. CASE EndNotify
  <2>1. n = [v EXCEPT !.pc = "done"] /\ v.next > Len(Targets)
    BY <1>2, <1>4 DEF EndNotify
  <2>2. /\ DOMAIN n = NotifierFields /\ n.pc = "done" /\ n.next = v.next
        /\ n.counted = v.counted /\ n.template = v.template /\ n.broken = v.broken
        /\ n.failed = v.failed
    BY <1>1, <2>1 DEF NotifierFields
  <2>3. NotifierShape(n)
    BY <1>1, <2>1, <2>2 DEF NotifierShape
  <2>4. Accounted(n, rows)
    BY <1>1, <2>2 DEF Accounted
  <2> QED BY <1>1, <1>2, <2>2, <2>3, <2>4 DEF NotifierInv
<1> QED BY <1>3, <1>4

\* The notifications of a breach.
LEMMA NotifierStep == ASSUME NotifierInv, [BreachNext]_breachVars PROVE NotifierInv'
<1>1. ASSUME UNCHANGED <<notifier, rows>> PROVE NotifierInv'
  BY <1>1 DEF NotifierInv
<1>2. CASE UNCHANGED breachVars
  BY <1>1, <1>2 DEF breachVars
<1>3. CASE \/ \E crit \in Criticalities : CreateIncident(crit)
           \/ EscalateSloBreach
           \/ \E i \in DOMAIN incidents : ResolveIncident(i)
  BY <1>1, <1>3 DEF CreateIncident, EscalateSloBreach, ResolveIncident
<1>4. CASE \E t \in BOOLEAN : BeginNotify(t)
  <2>1. PICK t \in BOOLEAN : BeginNotify(t)
    BY <1>4
  <2>2. PICK n : n = [pc |-> "send", next |-> 1, counted |-> {}, failed |-> {}, queued |-> FALSE,
                      template |-> t, broken |-> FALSE]
    OBVIOUS
  <2>3. /\ DOMAIN n = NotifierFields /\ n.pc = "send" /\ n.next = 1 /\ n.counted = {}
        /\ n.failed = {} /\ n.broken = FALSE /\ notifier' = n /\ rows' = {}
    BY <2>1, <2>2 DEF BeginNotify, NotifierFields
  <2>4. NotifierShape(n)
    BY <2>3 DEF NotifierShape
  <2>5. Accounted(n, {})
    BY <2>3 DEF Accounted
  <2> QED BY <2>3, <2>4, <2>5 DEF NotifierInv
<1> QED BY <1>2, <1>3, <1>4, SendNoticeInv, CommitNoticeInv, QueueNoticeInv DEF BreachNext

\* Every step of the registers keeps their invariant.
LEMMA GovernanceStep ==
    ASSUME GovernanceInv, [GovernanceNext]_governanceVars
    PROVE  /\ GovernanceInv'
           /\ [\A a \in DOMAIN approvals \intersect DOMAIN approvals' :
                  approvals[a] # "pending" /\ a \notin clash => approvals'[a] = approvals[a]
              ]_oversightVars
<1>1. /\ [RegisterNext]_registerVars /\ [OversightNext]_oversightVars /\ [BreachNext]_breachVars
  BY DEF GovernanceNext, governanceVars
<1> QED BY <1>1, RegisterStep, OversightStep, NotifierStep DEF GovernanceInv

\* The invariant behind the governance registers.
THEOREM GovernanceInvariant == GovernanceSpec => []GovernanceInv
<1>1. GovernanceInit => GovernanceInv
  BY DEF GovernanceInit, RegisterInit, OversightInit, BreachInit, GovernanceInv, RegisterInv,
         OversightInv, NotifierInv, OnSupplier, Decides, TriggersKept, Idle, NewSupplier
<1> QED BY <1>1, GovernanceStep, PTL DEF GovernanceSpec

\* For any clerks, triggers and notices, over calls that overlap and statements
\* and commits that raise (governance/supplier.py, breach/notifications.py): a
\* trigger is lost only to a call that had read the row before it was raised,
\* and a notice is missing or uncounted only after a statement that failed.
THEOREM RegistersDoAgree == GovernanceSpec => []RegistersAgree
<1>1. NotifierInv => NoticesAccounted
  <2> SUFFICES ASSUME NotifierInv, notifier.pc = "done" PROVE NoticesAccounted
    BY DEF NoticesAccounted
  <2>1. NotifierShape(notifier) /\ Accounted(notifier, rows)
    BY DEF NotifierInv
  <2>2. Len(Targets) < notifier.next /\ notifier.next \in Nat
    BY <2>1 DEF NotifierShape
  <2>3. ASSUME notifier.template, NEW i \in 1 .. Len(Targets), i \notin rows
        PROVE  \E k \in notifier.failed : k <= i
    <3>1. i \in 1 .. notifier.next - 1
      BY <2>2, TargetsAssumption
    <3> QED BY <2>1, <2>3, <3>1 DEF Accounted
  <2> QED BY <2>1, <2>3 DEF NoticesAccounted, Accounted
<1>2. GovernanceInv => RegistersAgree
  BY <1>1 DEF GovernanceInv, RegisterInv, RegistersAgree
<1> QED BY <1>2, GovernanceInvariant, PTL

\* A decided approval keeps its decision until the hash expires, unless two
\* operators had read it as pending together.
THEOREM OversightDoesStand == GovernanceSpec => OversightStands
<1>1. ASSUME GovernanceInv, [GovernanceNext]_governanceVars
      PROVE  [\A a \in DOMAIN approvals \intersect DOMAIN approvals' :
                approvals[a] # "pending" /\ a \notin clash => approvals'[a] = approvals[a]
             ]_oversightVars
  BY <1>1, GovernanceStep
<1> QED BY <1>1, GovernanceInvariant, PTL DEF GovernanceSpec, OversightStands
-----------------------------------------------------------------------------
(***************************************************************************)
(* RecordKeeping.  A quiet export has got a prefix of the list it reads.   *)
(* A lifecycle call may write a state it read long ago, but every state    *)
(* ever read is a legal path, and so is one step more.  The list a call    *)
(* will write to a trail holds all that the trail holds by then, unless    *)
(* another call was at work on the ticket.                                 *)
(***************************************************************************)

Stages == {"design", "review", "testing", "production", "retired"}

\* v is a path of allowed transitions from design, and says where it ends.
LegalState(v) ==
    /\ v.path \in Seq(Stages \X Stages) /\ v.stage \in Stages
    /\ v.version = Len(v.path)
    /\ \A i \in DOMAIN v.path :
          /\ v.path[i][2] \in ValidTransitions(v.path[i][1])
          /\ v.path[i][1] = IF i = 1 THEN "design" ELSE v.path[i - 1][2]
    /\ v.stage = IF v.path = << >> THEN "design" ELSE v.path[Len(v.path)][2]

LifecycleInv ==
    /\ LegalState(stateKey)
    /\ mover = [w \in Callers |-> mover[w]]
    /\ \A w \in Callers : mover[w].pc = "write" =>
          LegalState(mover[w].read) /\ mover[w].to \in ValidTransitions(mover[w].read.stage)

\* One allowed transition more keeps a state legal.
LEMMA MovedLegal ==
    ASSUME NEW v, LegalState(v), NEW to, to \in ValidTransitions(v.stage)
    PROVE  LegalState(Moved(v, to))
<1>1. v.path \in Seq(Stages \X Stages) /\ v.stage \in Stages /\ v.version = Len(v.path)
  BY DEF LegalState
<1>2. to \in Stages
  BY <1>1 DEF Stages, ValidTransitions
<1>31. PICK u : u = <<v.stage, to>>
  OBVIOUS
<1>3. u \in Stages \X Stages /\ u = <<v.stage, to>> /\ u[1] = v.stage /\ u[2] = to
  BY <1>1, <1>2, <1>31
<1>4. PICK p : p = Append(v.path, u)
  OBVIOUS
<1>5. /\ p \in Seq(Stages \X Stages) /\ Len(p) = Len(v.path) + 1 /\ p[Len(v.path) + 1] = u
      /\ \A i \in 1..Len(v.path) : p[i] = v.path[i]
      /\ DOMAIN p = 1..Len(p) /\ DOMAIN v.path = 1..Len(v.path) /\ Len(v.path) \in Nat
  <2>1. PICK S : S = Stages \X Stages
    OBVIOUS
  <2>2. v.path \in Seq(S) /\ u \in S
    BY <1>1, <1>3, <2>1
  <2> QED BY <1>4, <2>1, <2>2, AppendProperties
<1>6. PICK m : m = Moved(v, to)
  OBVIOUS
<1>7. m.path = p /\ m.stage = to /\ m.version = v.version + 1
  BY <1>3, <1>4, <1>6 DEF Moved
<1>8. ASSUME NEW i \in DOMAIN p
      PROVE  /\ p[i][2] \in ValidTransitions(p[i][1])
             /\ p[i][1] = IF i = 1 THEN "design" ELSE p[i - 1][2]
  <2>1. CASE i \in 1..Len(v.path)
    <3>1. i # 1 => i - 1 \in 1..Len(v.path)
      BY <1>5, <2>1
    <3> QED BY <1>5, <2>1, <3>1 DEF LegalState
  <2>2. CASE i = Len(v.path) + 1
    <3>1. p[i] = u /\ (i = 1 <=> v.path = << >>)
      BY <1>1, <1>5, <2>2
    <3>2. i # 1 => p[i - 1] = v.path[Len(v.path)]
      BY <1>5, <2>2
    <3> QED BY <1>3, <3>1, <3>2 DEF LegalState
  <2> QED BY <1>5, <1>8, <2>1, <2>2
<1>9. m.stage = IF p = << >> THEN "design" ELSE p[Len(p)][2]
  BY <1>3, <1>5, <1>7
<1> QED BY <1>1, <1>2, <1>5, <1>6, <1>7, <1>8, <1>9 DEF LegalState

\* The transitions of a tenant's deployment.
LEMMA LifecycleStep == ASSUME LifecycleInv, [LifecycleNext]_lifecycleVars PROVE LifecycleInv'
<1>1. CASE UNCHANGED lifecycleVars
  BY <1>1 DEF lifecycleVars, LifecycleInv
<1>2. ASSUME NEW w \in Callers, NEW n, mover' = [mover EXCEPT ![w] = n],
             n.pc = "write" => LegalState(n.read) /\ n.to \in ValidTransitions(n.read.stage),
             LegalState(stateKey')
      PROVE  LifecycleInv'
  <2>1. /\ mover' = [x \in Callers |-> mover'[x]]
        /\ \A x \in Callers : mover'[x] = IF x = w THEN n ELSE mover[x]
    BY <1>2 DEF LifecycleInv
  <2> QED BY <1>2, <2>1 DEF LifecycleInv
<1>3. ASSUME NEW w \in Callers, NEW to \in Stages, ReadState(w, to) PROVE LifecycleInv'
  <2>1. PICK n : n = [pc |-> "write", to |-> to, read |-> stateKey]
    OBVIOUS
  <2>2. /\ n.to = to /\ n.read = stateKey /\ mover' = [mover EXCEPT ![w] = n]
        /\ stateKey' = stateKey /\ to \in ValidTransitions(stateKey.stage)
    BY <1>3, <2>1 DEF ReadState
  <2> QED BY <1>2, <2>2 DEF LifecycleInv
<1>4. ASSUME NEW w \in Callers, WriteState(w) PROVE LifecycleInv'
  <2>1. PICK n : n = [mover[w] EXCEPT !.pc = "readHistory"]
    OBVIOUS
  <2>2. mover' = [mover EXCEPT ![w] = n] /\ stateKey' = Moved(mover[w].read, mover[w].to)
    BY <1>4, <2>1 DEF WriteState
  <2>3. LegalState(stateKey')
    BY <1>4, <2>2, MovedLegal DEF LifecycleInv, WriteState
  <2>4. n.pc # "write"
    BY <1>4, <2>1 DEF WriteState
  <2> QED BY <1>2, <2>2, <2>3, <2>4
<1>5. ASSUME NEW w \in Callers, ReadHistory(w) \/ WriteHistory(w) PROVE LifecycleInv'
  <2>1. PICK n : n = IF ReadHistory(w)
                     THEN [pc |-> "writeHistory", list |->
                             Append(historyKey, <<mover[w].read.stage, mover[w].to>>)]
                     ELSE [pc |-> "idle"]
    OBVIOUS
  <2>2. n.pc # "write" /\ mover' = [mover EXCEPT ![w] = n] /\ stateKey' = stateKey
    BY <1>5, <2>1 DEF ReadHistory, WriteHistory
  <2> QED BY <1>2, <2>2 DEF LifecycleInv
<1> QED BY <1>1, <1>3, <1>4, <1>5 DEF LifecycleNext, Stages

-----------------------------------------------------------------------------
Statuses == {"pending", "completed", "rejected"}
TicketFields == {"type", "status", "result"}
Entries == [deed : Nat, status : Statuses]
KeeperFields == {"pc", "ticket", "deed", "new", "alone"}

TicketInv ==
    /\ listed \subseteq DOMAIN tickets /\ DOMAIN tickets \subseteq Tickets
    /\ \A t \in DOMAIN tickets : DOMAIN tickets[t] = TicketFields
    /\ deeds \in Nat
    /\ trail \in [Tickets -> Seq(Entries)]
    /\ saved = [t \in Tickets |-> saved[t]] /\ told = [t \in Tickets |-> told[t]]

\* What the call k holds.
KeeperShape(k) ==
    /\ k.pc \in {"idle", "save", "list", "readTrail", "writeTrail"}
    /\ k.pc # "idle" =>
          /\ k.ticket \in Tickets /\ k.deed \in Nat
          /\ DOMAIN k.new = TicketFields /\ k.new.status \in Statuses
          /\ DOMAIN k = KeeperFields \union IF k.pc = "writeTrail" THEN {"list"} ELSE {}
    /\ k.pc = "list" => k.ticket \in DOMAIN tickets
    /\ k.pc = "writeTrail" => k.list \in Seq(Entries)

Told(k) == [deed |-> k.deed, status |-> k.new.status]

\* What the call k saved is in the database, and the list it will write holds
\* that, nothing that was not saved, and all that the trail must hold.
KeeperAhead(k) ==
    /\ k.pc \in {"list", "readTrail", "writeTrail"} => Told(k) \in saved[k.ticket]
    /\ k.pc = "writeTrail" => /\ Told(k) \in ToSet(k.list)
                              /\ ToSet(k.list) \subseteq saved[k.ticket]
                              /\ told[k.ticket] \subseteq ToSet(k.list)

TrailInv ==
    /\ TicketInv
    /\ keeper = [w \in Callers |-> keeper[w]]
    /\ \A w \in Callers : KeeperShape(keeper[w]) /\ KeeperAhead(keeper[w])
    /\ \A v, w \in Callers : \A t : WorksOn(v, t) /\ WorksOn(w, t) /\ v # w => ~keeper[v].alone
    /\ TrailTellsChanges

\* Call w goes from one step on its ticket to the next, which leaves every other
\* ticket as it is.  An entry is promised only by a call that was alone.
LEMMA KeeperMoves ==
    ASSUME TrailInv, NEW w \in Callers, NEW t \in Tickets, NEW n, WorksOn(w, t),
           keeper' = [keeper EXCEPT ![w] = n], TicketInv',
           DOMAIN tickets \subseteq DOMAIN tickets',
           \A x \in Tickets \ {t} : /\ trail'[x] = trail[x] /\ saved'[x] = saved[x]
                                    /\ told'[x] = told[x],
           saved[t] \subseteq saved'[t],
           told'[t] # told[t] => keeper[w].alone,
           told'[t] \subseteq ToSet(trail'[t]), ToSet(trail'[t]) \subseteq saved'[t],
           KeeperShape(n)', KeeperAhead(n)',
           n.pc # "idle" => n.ticket = t /\ n.alone = keeper[w].alone
    PROVE  TrailInv'
<1>1. /\ keeper' = [x \in Callers |-> keeper'[x]]
      /\ \A x \in Callers : keeper'[x] = IF x = w THEN n ELSE keeper[x]
  BY DEF TrailInv
<1>2. \A v \in Callers : \A x : WorksOn(v, x)' => WorksOn(v, x)
  BY <1>1 DEF WorksOn
<1>3. \A v, u \in Callers : \A x : WorksOn(v, x)' /\ WorksOn(u, x)' /\ v # u => ~keeper'[v].alone
  <2> SUFFICES ASSUME NEW v \in Callers, NEW u \in Callers, NEW x,
                      WorksOn(v, x)', WorksOn(u, x)', v # u
               PROVE  ~keeper'[v].alone
    OBVIOUS
  <2>1. ~keeper[v].alone
    BY <1>2 DEF TrailInv
  <2>2. keeper'[v].alone = keeper[v].alone
    BY <1>1 DEF WorksOn
  <2> QED BY <2>1, <2>2
<1>4. ASSUME NEW v \in Callers PROVE KeeperShape(keeper[v])' /\ KeeperAhead(keeper[v])'
  <2>1. CASE v = w
    <3>1. keeper'[v] = n
      BY <1>1, <2>1
    <3>2. KeeperShape(keeper[v])'
      BY <3>1 DEF KeeperShape
    <3>3. KeeperAhead(keeper[v])'
      BY <3>1 DEF KeeperAhead, Told
    <3> QED BY <3>2, <3>3
  <2>2. CASE v # w
    <3>1. keeper'[v] = keeper[v] /\ KeeperShape(keeper[v]) /\ KeeperAhead(keeper[v])
      BY <1>1, <2>2 DEF TrailInv
    <3>2. KeeperShape(keeper[v])'
      BY <3>1 DEF KeeperShape
    <3>3. CASE keeper[v].pc = "idle"
      BY <3>1, <3>2, <3>3 DEF KeeperAhead
    <3>4. CASE keeper[v].pc # "idle" /\ keeper[v].ticket # t
      <4>1. PICK x \in Tickets \ {t} : x = keeper[v].ticket
        BY <3>1, <3>4 DEF KeeperShape
      <4>2. saved'[x] = saved[x] /\ told'[x] = told[x]
        BY <4>1
      <4> QED BY <3>1, <3>2, <4>1, <4>2 DEF KeeperAhead, Told
    <3>5. CASE keeper[v].pc # "idle" /\ keeper[v].ticket = t
      <4>1. WorksOn(v, t)
        BY <3>5 DEF WorksOn
      <4>2. ~keeper[w].alone
        BY <2>2, <4>1 DEF TrailInv
      <4>3. told'[t] = told[t]
        BY <4>2
      <4>4. saved[t] \subseteq saved'[t]
        OBVIOUS
      <4>5. KeeperAhead(keeper[v])'
        BY <3>1, <3>5, <4>3, <4>4 DEF KeeperAhead, Told
      <4> QED BY <3>2, <4>5
    <3> QED BY <3>2, <3>3, <3>4, <3>5
  <2> QED BY <2>1, <2>2
<1>5. TrailTellsChanges'
  <2> SUFFICES ASSUME NEW x \in Tickets
               PROVE  told'[x] \subseteq ToSet(trail'[x]) /\ ToSet(trail'[x]) \subseteq saved'[x]
    BY DEF TrailTellsChanges
  <2>1. CASE x = t
    BY <2>1
  <2>2. CASE x # t
    <3>1. trail'[x] = trail[x] /\ saved'[x] = saved[x] /\ told'[x] = told[x]
      BY <2>2
    <3> QED BY <3>1 DEF TrailInv, TrailTellsChanges
  <2> QED BY <2>1, <2>2
<1> QED BY <1>1, <1>3, <1>4, <1>5 DEF TrailInv

\* A call begins on a ticket, and ends the solitude of every other call on it.
LEMMA BegunInv ==
    ASSUME TrailInv, NEW w \in Callers, NEW t \in Tickets, NEW new,
           keeper[w].pc = "idle", deeds' = deeds + 1,
           DOMAIN new = TicketFields, new.status \in Statuses,
           keeper' = Begun(w, t, new),
           UNCHANGED <<tickets, listed, trail, saved, told>>
    PROVE  TrailInv'
<1>1. PICK n : n = [pc |-> "save", ticket |-> t, deed |-> deeds + 1, new |-> new,
                    alone |-> \A u \in Callers \ {w} : ~WorksOn(u, t)]
  OBVIOUS
<1>2. /\ n.pc = "save" /\ n.ticket = t /\ n.deed = deeds + 1 /\ n.new = new
      /\ DOMAIN n = KeeperFields
      /\ n.alone => \A u \in Callers \ {w} : ~WorksOn(u, t)
  BY <1>1 DEF KeeperFields
<1>3. deeds \in Nat
  BY DEF TrailInv, TicketInv
<1>4. TicketInv'
  BY <1>3 DEF TrailInv, TicketInv
<1>5. /\ keeper' = [v \in Callers |-> keeper'[v]]
      /\ keeper'[w] = n
      /\ \A v \in Callers \ {w} : keeper'[v] = IF WorksOn(v, t)
                                               THEN [keeper[v] EXCEPT !.alone = FALSE]
                                               ELSE keeper[v]
  BY <1>1 DEF Begun
<1>6. \A v \in Callers : KeeperShape(keeper[v]) /\ KeeperAhead(keeper[v])
  BY DEF TrailInv
<1>7. ASSUME NEW v \in Callers \ {w}
      PROVE  /\ keeper'[v].pc = keeper[v].pc /\ DOMAIN keeper'[v] = DOMAIN keeper[v]
             /\ keeper[v].pc # "idle" =>
                   /\ keeper'[v].ticket = keeper[v].ticket /\ keeper'[v].deed = keeper[v].deed
                   /\ keeper'[v].new = keeper[v].new
                   /\ keeper'[v].alone => keeper[v].alone /\ ~WorksOn(v, t)
             /\ keeper[v].pc = "writeTrail" => keeper'[v].list = keeper[v].list
  <2>1. CASE WorksOn(v, t)
    <3>1. keeper'[v] = [keeper[v] EXCEPT !.alone = FALSE] /\ KeeperShape(keeper[v])
      BY <1>5, <1>6, <2>1
    <3>2. keeper[v].pc # "idle" /\ KeeperFields \subseteq DOMAIN keeper[v]
      BY <2>1, <3>1 DEF KeeperShape, WorksOn
    <3>3. /\ DOMAIN keeper'[v] = DOMAIN keeper[v] /\ keeper'[v].pc = keeper[v].pc
          /\ keeper'[v].ticket = keeper[v].ticket /\ keeper'[v].deed = keeper[v].deed
          /\ keeper'[v].new = keeper[v].new /\ ~keeper'[v].alone
      BY <3>1, <3>2 DEF KeeperFields
    <3>4. keeper[v].pc = "writeTrail" => keeper'[v].list = keeper[v].list
      BY <3>1 DEF KeeperShape
    <3> QED BY <3>3, <3>4
  <2>2. CASE ~WorksOn(v, t)
    BY <1>5, <2>2
  <2> QED BY <2>1, <2>2
<1>8. ASSUME NEW v \in Callers PROVE KeeperShape(keeper[v])' /\ KeeperAhead(keeper[v])'
  <2>1. CASE v = w
    <3>1. keeper'[v] = n
      BY <1>5, <2>1
    <3>2. KeeperShape(keeper[v])'
      BY <1>2, <1>3, <3>1 DEF KeeperShape
    <3> QED BY <1>2, <3>1, <3>2 DEF KeeperAhead
  <2>2. CASE v # w
    <3>1. KeeperShape(keeper[v])'
      BY <1>6, <1>7, <2>2 DEF KeeperShape
    <3>2. keeper[v].pc # "idle" => Told(keeper'[v]) = Told(keeper[v])
      BY <1>7, <2>2 DEF Told
    <3>3. KeeperAhead(keeper[v])'
      BY <1>6, <1>7, <2>2, <3>2 DEF KeeperAhead
    <3> QED BY <3>1, <3>3
  <2> QED BY <2>1, <2>2
<1>9. ASSUME NEW v \in Callers, NEW u \in Callers, NEW x, WorksOn(v, x)', WorksOn(u, x)', v # u
      PROVE  ~keeper'[v].alone
  <2>1. CASE v # w /\ u # w
    <3>1. WorksOn(v, x) /\ WorksOn(u, x)
      BY <1>7, <1>9, <2>1 DEF WorksOn
    <3>2. ~keeper[v].alone
      BY <1>9, <3>1 DEF TrailInv
    <3> QED BY <1>7, <2>1, <3>1, <3>2 DEF WorksOn
  <2>2. CASE v = w
    <3>1. x = t /\ WorksOn(u, t)
      BY <1>2, <1>5, <1>7, <1>9, <2>2 DEF WorksOn
    <3> QED BY <1>2, <1>5, <1>9, <2>2, <3>1
  <2>3. CASE u = w
    <3>1. x = t /\ WorksOn(v, t) /\ keeper[v].pc # "idle"
      BY <1>2, <1>5, <1>7, <1>9, <2>3 DEF WorksOn
    <3> QED BY <1>7, <1>9, <2>3, <3>1
  <2> QED BY <2>1, <2>2, <2>3
<1>10. TrailTellsChanges'
  BY DEF TrailInv, TrailTellsChanges
<1> QED BY <1>4, <1>5, <1>8, <1>9, <1>10 DEF TrailInv

\* A request is created.
LEMMA CreateTicketInv ==
    ASSUME TrailInv, NEW w \in Callers, NEW t \in Tickets, NEW type, CreateTicket(w, t, type)
    PROVE  TrailInv'
<1>1. PICK new : new = [type |-> type, status |-> "pending", result |-> "none"]
  OBVIOUS
<1>2. DOMAIN new = TicketFields /\ new.status \in Statuses
  BY <1>1 DEF TicketFields, Statuses
<1> QED BY <1>1, <1>2, BegunInv DEF CreateTicket

\* A call reads the request.
LEMMA ReadTicketInv ==
    ASSUME TrailInv, NEW w \in Callers, NEW t \in Tickets, NEW verb, ReadTicket(w, t, verb)
    PROVE  TrailInv'
<1>1. PICK result : keeper' = Begun(w, t, [tickets[t] EXCEPT !.result = result,
                        !.status = IF verb = "reject" THEN "rejected" ELSE "completed"])
  BY DEF ReadTicket
<1>2. PICK new : new = [tickets[t] EXCEPT !.result = result,
                        !.status = IF verb = "reject" THEN "rejected" ELSE "completed"]
  OBVIOUS
<1>3. DOMAIN tickets[t] = TicketFields
  BY DEF ReadTicket, TrailInv, TicketInv
<1>4. DOMAIN new = TicketFields /\ new.status \in Statuses
  BY <1>2, <1>3 DEF TicketFields, Statuses
<1> QED BY <1>1, <1>2, <1>4, BegunInv DEF ReadTicket

\* A call goes on with its ticket, or raises.
LEMMA KeeperStep ==
    ASSUME TrailInv, NEW w \in Callers,
           SaveTicket(w) \/ ListTicket(w) \/ ReadTrail(w) \/ WriteTrail(w) \/ CallRaises(w)
    PROVE  TrailInv'
<1>1. PICK t : t = keeper[w].ticket
  OBVIOUS
<1>2. /\ t \in Tickets /\ WorksOn(w, t) /\ keeper[w].pc # "idle"
      /\ KeeperShape(keeper[w]) /\ KeeperAhead(keeper[w])
  BY <1>1 DEF TrailInv, KeeperShape, WorksOn, SaveTicket, ListTicket, ReadTrail, WriteTrail, CallRaises
<1>3. /\ TicketInv /\ told[t] \subseteq ToSet(trail[t]) /\ ToSet(trail[t]) \subseteq saved[t]
  BY <1>2 DEF TrailInv, TrailTellsChanges
<1>4. PICK e : e = ChangeOf(w)
  OBVIOUS
<1>5. e = Told(keeper[w]) /\ e \in Entries
  BY <1>2, <1>4 DEF ChangeOf, Told, Entries, KeeperShape
<1>6. PICK i : i = [pc |-> "idle"]
  OBVIOUS
<1>7. i.pc = "idle" /\ Ended(w) = [keeper EXCEPT ![w] = i] /\ KeeperShape(i)' /\ KeeperAhead(i)'
  BY <1>6 DEF Ended, KeeperShape, KeeperAhead
<1>8. CASE CallRaises(w)
  <2>1. /\ keeper' = [keeper EXCEPT ![w] = i]
        /\ UNCHANGED <<tickets, listed, trail, deeds, saved, told>>
    BY <1>7, <1>8 DEF CallRaises
  <2>2. TicketInv'
    BY <1>3, <2>1 DEF TicketInv
  <2> QED BY <1>2, <1>3, <1>7, <2>1, <2>2, KeeperMoves
<1>9. CASE SaveTicket(w)
  <2>1. PICK pc \in {"list", "readTrail"} :
          pc = IF keeper[w].new.status = "pending" THEN "list" ELSE "readTrail"
    OBVIOUS
  <2>2. PICK m : m = [keeper[w] EXCEPT !.pc = pc]
    OBVIOUS
  <2>3. PICK n \in {m, i} : keeper' = [keeper EXCEPT ![w] = n]
    BY <1>7, <1>9, <2>1, <2>2 DEF SaveTicket
  <2>4. /\ keeper[w].pc = "save"
        /\ tickets' = [x \in DOMAIN tickets \union {t} |->
                          IF x = t THEN keeper[w].new ELSE tickets[x]]
        /\ saved' = [saved EXCEPT ![t] = @ \union {e}]
        /\ UNCHANGED <<listed, trail, deeds, told>>
    BY <1>1, <1>4, <1>9 DEF SaveTicket
  <2>5. /\ DOMAIN m = KeeperFields /\ m.pc = pc /\ m.ticket = t /\ m.deed = keeper[w].deed
        /\ m.new = keeper[w].new /\ m.alone = keeper[w].alone
    <3>1. DOMAIN keeper[w] = KeeperFields
      BY <1>2, <2>4 DEF KeeperShape
    <3> QED BY <1>1, <2>2, <3>1 DEF KeeperFields
  <2>6. /\ DOMAIN tickets' = DOMAIN tickets \union {t} /\ tickets'[t] = keeper[w].new
        /\ \A x \in DOMAIN tickets \ {t} : tickets'[x] = tickets[x]
    BY <2>4
  <2>7. /\ saved' = [x \in Tickets |-> saved'[x]] /\ saved'[t] = saved[t] \union {e}
        /\ \A x \in Tickets \ {t} : saved'[x] = saved[x]
    BY <1>2, <1>3, <2>4 DEF TicketInv
  <2>8. TicketInv'
    <3>1. \A x \in DOMAIN tickets' : DOMAIN tickets'[x] = TicketFields
      BY <1>2, <1>3, <2>6 DEF TicketInv, KeeperShape
    <3> QED BY <1>2, <1>3, <2>4, <2>6, <2>7, <3>1 DEF TicketInv
  <2>9. KeeperShape(m)' /\ KeeperAhead(m)'
    <3>1. KeeperShape(m)'
      BY <1>2, <2>1, <2>5, <2>6 DEF KeeperShape
    <3>2. Told(m) = e
      BY <1>5, <2>5 DEF Told
    <3>3. KeeperAhead(m)'
      BY <2>1, <2>5, <2>7, <3>2 DEF KeeperAhead, Told
    <3> QED BY <3>1, <3>3
  <2>10. /\ KeeperShape(n)' /\ KeeperAhead(n)'
         /\ n.pc # "idle" => n.ticket = t /\ n.alone = keeper[w].alone
    <3>1. CASE n = m
      BY <2>5, <2>9, <3>1 DEF KeeperShape, KeeperAhead, Told
    <3>2. CASE n = i
      BY <1>7, <3>2 DEF KeeperShape, KeeperAhead, Told
    <3> QED BY <2>3, <3>1, <3>2
  <2>11. trail' = trail /\ told' = told
    BY <2>4
  <2> QED BY <1>2, <1>3, <2>3, <2>6, <2>7, <2>8, <2>10, <2>11, KeeperMoves
<1>10. CASE ListTicket(w)
  <2>1. PICK m : m = [keeper[w] EXCEPT !.pc = "readTrail"]
    OBVIOUS
  <2>2. PICK n \in {m, i} : keeper' = [keeper EXCEPT ![w] = n]
    BY <1>7, <1>10, <2>1 DEF ListTicket
  <2>3. /\ keeper[w].pc = "list" /\ listed' = listed \union {t}
        /\ UNCHANGED <<tickets, trail, deeds, saved, told>>
    BY <1>1, <1>10 DEF ListTicket
  <2>4. /\ DOMAIN m = KeeperFields /\ m.pc = "readTrail" /\ m.ticket = t
        /\ m.deed = keeper[w].deed /\ m.new = keeper[w].new /\ m.alone = keeper[w].alone
    <3>1. DOMAIN keeper[w] = KeeperFields
      BY <1>2, <2>3 DEF KeeperShape
    <3> QED BY <1>1, <2>1, <3>1 DEF KeeperFields
  <2>5. TicketInv'
    BY <1>1, <1>2, <1>3, <2>3 DEF TicketInv, KeeperShape
  <2>6. KeeperShape(m)'
    BY <1>2, <2>4 DEF KeeperShape
  <2>7. KeeperAhead(m)'
    <3>1. Told(m) \in saved'[t]
      BY <1>1, <1>2, <2>3, <2>4 DEF KeeperAhead, Told
    <3> QED BY <2>4, <3>1 DEF KeeperAhead, Told
  <2>8. /\ KeeperShape(n)' /\ KeeperAhead(n)'
        /\ n.pc # "idle" => n.ticket = t /\ n.alone = keeper[w].alone
    <3>1. CASE n = m
      BY <2>4, <2>6, <2>7, <3>1 DEF KeeperShape, KeeperAhead, Told
    <3>2. CASE n = i
      BY <1>7, <3>2 DEF KeeperShape, KeeperAhead, Told
    <3> QED BY <2>2, <3>1, <3>2
  <2>9. tickets' = tickets /\ trail' = trail /\ saved' = saved /\ told' = told
    BY <2>3
  <2> QED BY <1>2, <1>3, <2>2, <2>5, <2>8, <2>9, KeeperMoves
<1>11. CASE ReadTrail(w)
  <2>1. PICK s : s = Append(trail[t], e)
    OBVIOUS
  <2>2. PICK n : n = [pc |-> "writeTrail", ticket |-> t, deed |-> keeper[w].deed,
                      new |-> keeper[w].new, alone |-> keeper[w].alone, list |-> s]
    OBVIOUS
  <2>3. /\ keeper[w].pc = "readTrail" /\ keeper' = [keeper EXCEPT ![w] = n]
        /\ UNCHANGED <<tickets, listed, trail, deeds, saved, told>>
    BY <1>1, <1>4, <1>11, <2>1, <2>2 DEF ReadTrail
  <2>4. trail[t] \in Seq(Entries)
    BY <1>2, <1>3 DEF TicketInv
  <2>5. s \in Seq(Entries)
    BY <1>5, <2>1, <2>4
  <2>6. ToSet(s) = ToSet(trail[t]) \union {e}
    BY <1>5, <2>1, <2>4, ListElements
  <2>7. TicketInv'
    BY <1>3, <2>3 DEF TicketInv
  <2>8. /\ n.pc = "writeTrail" /\ n.ticket = t /\ n.deed = keeper[w].deed
        /\ n.new = keeper[w].new /\ n.alone = keeper[w].alone /\ n.list = s
        /\ DOMAIN n = KeeperFields \union {"list"}
    BY <2>2 DEF KeeperFields
  <2>9. KeeperShape(n)'
    BY <1>2, <2>5, <2>8 DEF KeeperShape
  <2>10. KeeperAhead(n)'
    <3>1. Told(n) = e
      BY <1>5, <2>8 DEF Told
    <3>2. e \in saved[t]
      BY <1>1, <1>2, <1>5, <2>3 DEF KeeperAhead
    <3>3. saved' = saved /\ told' = told
      BY <2>3
    <3> QED BY <1>3, <2>6, <2>8, <3>1, <3>2, <3>3 DEF KeeperAhead, Told
  <2>11. tickets' = tickets /\ trail' = trail /\ saved' = saved /\ told' = told
    BY <2>3
  <2> QED BY <1>2, <1>3, <2>3, <2>7, <2>8, <2>9, <2>10, <2>11, KeeperMoves
<1>12. CASE WriteTrail(w)
  <2>1. /\ keeper[w].pc = "writeTrail" /\ keeper' = [keeper EXCEPT ![w] = i]
        /\ trail' = [trail EXCEPT ![t] = keeper[w].list]
        /\ UNCHANGED <<tickets, listed, deeds, saved>>
    BY <1>1, <1>7, <1>12 DEF WriteTrail
  <2>2. \/ told' = [told EXCEPT ![t] = IF keeper[w].alone THEN @ \union {e} ELSE @]
        \/ told' = told
    BY <1>1, <1>4, <1>12 DEF WriteTrail
  <2>3. /\ told' = [x \in Tickets |-> told'[x]] /\ told'[t] \subseteq told[t] \union {e}
        /\ told'[t] # told[t] => keeper[w].alone
        /\ \A x \in Tickets \ {t} : told'[x] = told[x]
    BY <1>2, <1>3, <2>2 DEF TicketInv
  <2>4. /\ keeper[w].list \in Seq(Entries) /\ e \in ToSet(keeper[w].list)
        /\ ToSet(keeper[w].list) \subseteq saved[t] /\ told[t] \subseteq ToSet(keeper[w].list)
    BY <1>1, <1>2, <1>5, <2>1 DEF KeeperShape, KeeperAhead
  <2>5. /\ trail' \in [Tickets -> Seq(Entries)] /\ trail'[t] = keeper[w].list
        /\ \A x \in Tickets \ {t} : trail'[x] = trail[x]
    BY <1>2, <1>3, <2>1, <2>4 DEF TicketInv
  <2>6. TicketInv'
    BY <1>3, <2>1, <2>3, <2>5 DEF TicketInv
  <2>7. saved' = saved /\ tickets' = tickets
    BY <2>1
  <2> QED BY <1>2, <1>7, <2>1, <2>3, <2>4, <2>5, <2>6, <2>7, KeeperMoves
<1> QED BY <1>8, <1>9, <1>10, <1>11, <1>12

\* The Redis services.
LEMMA TrailStep == ASSUME TrailInv, [ServiceNext]_serviceVars PROVE TrailInv'
<1>1. ASSUME UNCHANGED <<tickets, listed, trail, keeper, deeds, saved, told>> PROVE TrailInv'
  BY <1>1 DEF TrailInv, TicketInv, KeeperShape, KeeperAhead, Told, WorksOn, TrailTellsChanges
<1>2. CASE UNCHANGED serviceVars
  BY <1>1, <1>2 DEF serviceVars
<1>3. CASE \E h \in HoldIds : ImposeHold(h) \/ IndexHold(h) \/ ReleaseHoldKey(h)
  BY <1>1, <1>3 DEF ImposeHold, IndexHold, ReleaseHoldKey
<1>4. CASE \E w \in Callers, t \in Tickets, type \in TicketTypes : CreateTicket(w, t, type)
  BY <1>4, CreateTicketInv
<1>5. CASE \E w \in Callers, t \in Tickets, verb \in {"process", "reject"} : ReadTicket(w, t, verb)
  BY <1>5, ReadTicketInv
<1>6. CASE \E w \in Callers :
              SaveTicket(w) \/ ListTicket(w) \/ ReadTrail(w) \/ WriteTrail(w) \/ CallRaises(w)
  BY <1>6, KeeperStep
<1> QED BY <1>2, <1>3, <1>4, <1>5, <1>6 DEF ServiceNext

-----------------------------------------------------------------------------
LineageRows == [id : Rows, session : Sessions, at : Int]

\* What a quiet export reads: the rows of lineage, then the others.
Total == Len(lineage) + Len(OtherRows)
RowAt(i) == IF i <= Len(lineage) THEN lineage[i].id ELSE OtherRows[i - Len(lineage)]

\* The first n rows are what the export e has got.
GotFirst(e, n) == /\ e.got \in Seq(Rows \union ToSet(OtherRows)) /\ Len(e.got) = n
                  /\ n <= Total /\ \A i \in 1..n : e.got[i] = RowAt(i)

\* An export whose list stands still has got the first rows of it.
ExportSound(e) ==
    e.quiet /\ Len(lineage) <= MaxLimit =>
        /\ e.pc = "reading" => GotFirst(e, e.skip)
        /\ e.pc = "done" => GotFirst(e, Total)

ExportShape(e) ==
    /\ e.pc \in {"reading", "done"} /\ DOMAIN e = {"pc", "limit", "skip", "got", "quiet"}
    /\ e.skip \in Nat /\ e.limit \in Int

LineageInv ==
    /\ lineage \in Seq(LineageRows) /\ used \subseteq Rows /\ clock \in Int
    /\ export.pc # "idle" => ExportShape(export) /\ ExportSound(export)

\* An export that nobody disturbs stays as sound as it was; a list that
\* changes under it ends the claim.
LEMMA ListMoves ==
    ASSUME LineageInv, lineage' \in Seq(LineageRows), used' \subseteq Rows, clock' \in Int,
           \/ export' = export /\ (export.pc = "idle" \/ lineage' = lineage)
           \/ export.pc # "idle" /\ export' = [export EXCEPT !.quiet = FALSE]
    PROVE  LineageInv'
<1>1. CASE export' = export /\ export.pc = "idle"
  BY <1>1 DEF LineageInv
<1>2. CASE export' = export /\ export.pc # "idle" /\ lineage' = lineage
  BY <1>2 DEF LineageInv, ExportShape, ExportSound, GotFirst, Total, RowAt
<1>3. CASE export.pc # "idle" /\ export' = [export EXCEPT !.quiet = FALSE]
  <2>1. ExportShape(export') /\ ~export'.quiet
    BY <1>3 DEF LineageInv, ExportShape
  <2> QED BY <2>1 DEF LineageInv, ExportSound, ExportShape
<1> QED BY <1>1, <1>2, <1>3

\* A row is recorded.
LEMMA RecordLineageInv ==
    ASSUME LineageInv, NEW s \in Sessions, RecordLineage(s)
    PROVE  LineageInv'
<1>1. PICK id : /\ id = CHOOSE x \in Rows \ used : TRUE
                /\ used' = used \union {id}
                /\ lineage' = <<[id |-> id, session |-> s, at |-> clock]>> \o lineage
  BY DEF RecordLineage
<1>2. id \in Rows \ used
  BY <1>1 DEF RecordLineage, LineageInv
<1>3. PICK r \in LineageRows : r = [id |-> id, session |-> s, at |-> clock]
  BY <1>2 DEF LineageRows, LineageInv
<1>4. PICK u : u = <<r>>
  OBVIOUS
<1>5. u \in Seq(LineageRows) /\ lineage' = u \o lineage
  BY <1>1, <1>3, <1>4
<1>6. lineage' \in Seq(LineageRows)
  BY <1>5 DEF LineageInv
<1>7. used' \subseteq Rows /\ clock' \in Int
  BY <1>1, <1>2 DEF LineageInv, RecordLineage
<1>8. export' = IF export.pc = "idle" THEN export ELSE [export EXCEPT !.quiet = FALSE]
  BY DEF RecordLineage
<1> QED BY <1>6, <1>7, <1>8, ListMoves

\* A tier is purged.
LEMMA PurgeInv ==
    ASSUME LineageInv, NEW tier, NEW dryRun, PurgeExpired(tier, dryRun)
    PROVE  LineageInv'
<1>1. lineage \in Seq(LineageRows) /\ used' \subseteq Rows /\ clock' \in Int
  BY DEF LineageInv, PurgeExpired
<1>2. PICK S : lineage' = Kept(lineage, S) \/ lineage' = lineage
  BY DEF PurgeExpired
<1>3. Kept(lineage, S) \in Seq(LineageRows)
  BY <1>1, KeptElements
<1>4. lineage' \in Seq(LineageRows)
  BY <1>1, <1>2, <1>3
<1>5. export' = IF export.pc # "idle" /\ lineage' # lineage
                THEN [export EXCEPT !.quiet = FALSE] ELSE export
  BY DEF PurgeExpired
<1> QED BY <1>1, <1>4, <1>5, ListMoves

\* An export begins.
LEMMA BeginExportInv ==
    ASSUME LineageInv, NEW limit \in Limits, BeginExport(limit)
    PROVE  LineageInv'
<1>1. PICK e : e = [pc |-> "reading", limit |-> limit, skip |-> 0, got |-> << >>, quiet |-> TRUE]
  OBVIOUS
<1>2. /\ e.pc = "reading" /\ e.limit \in Int /\ e.skip = 0 /\ e.got = << >> /\ e.quiet = TRUE
      /\ DOMAIN e = {"pc", "limit", "skip", "got", "quiet"} /\ export' = e
      /\ UNCHANGED <<lineage, used, clock>>
  BY <1>1, RecordAssumption DEF BeginExport
<1>3. ExportShape(e)
  BY <1>2 DEF ExportShape
<1>4. lineage \in Seq(LineageRows) /\ OtherRows \in Seq(ToSet(OtherRows))
  BY RecordAssumption DEF LineageInv
<1>5. Len(lineage) \in Nat /\ Len(OtherRows) \in Nat
  BY <1>4
<1>6. 0 <= Total
  BY <1>5 DEF Total
<1>7. << >> \in Seq(Rows \union ToSet(OtherRows)) /\ Len(<< >>) = 0 /\ 1..0 = {}
  OBVIOUS
<1>8. GotFirst(e, 0)
  BY <1>2, <1>6, <1>7 DEF GotFirst
<1>9. ExportSound(e)
  BY <1>2, <1>8 DEF ExportSound
<1> QED BY <1>2, <1>3, <1>9 DEF LineageInv, ExportSound, GotFirst, Total, RowAt

\* The list of a quiet export, over rows that are not too many for a query.
LEMMA CollectedRows ==
    ASSUME LineageInv, Len(lineage) <= MaxLimit
    PROVE  /\ Collected(0, FALSE) \in Seq(Rows \union ToSet(OtherRows))
           /\ Len(Collected(0, FALSE)) = Total
           /\ \A i \in 1..Total : Collected(0, FALSE)[i] = RowAt(i)
<1> DEFINE n == Len(lineage)
<1>0. PICK S : S = Rows \union ToSet(OtherRows)
  OBVIOUS
<1>1. /\ lineage \in Seq(LineageRows) /\ n \in Nat /\ MaxLimit \in Nat
      /\ OtherRows \in Seq(ToSet(OtherRows))
  BY RecordAssumption DEF LineageInv
<1>2. PICK q : q = [i \in 1..n |-> lineage[i].id]
  OBVIOUS
<1>3. \A i \in 1..n : lineage[i].id \in S
  <2> TAKE i \in 1..n
  <2>1. lineage[i] \in LineageRows
    BY <1>1
  <2> QED BY <1>0, <2>1 DEF LineageRows
<1>4. q \in Seq(S) /\ Len(q) = n /\ \A i \in 1..n : q[i] = lineage[i].id
  <2>1. q \in [1..n -> S]
    BY <1>2, <1>3
  <2>2. q \in Seq(S)
    BY <1>1, <2>1, SeqDef
  <2> QED BY <1>1, <1>2, <2>2
<1>5. QueryLineage(0, FALSE) = q
  <2>1. (IF FALSE \/ n - 0 < 0 THEN 0 ELSE IF n - 0 < MaxLimit THEN n - 0 ELSE MaxLimit) = n
    BY <1>1
  <2>2. \A i \in 1..n : i + 0 = i
    BY <1>1
  <2> QED BY <1>2, <2>1, <2>2 DEF QueryLineage
<1>6. OtherRows \in Seq(S)
  BY <1>0, <1>1
<1>7. Collected(0, FALSE) = q \o OtherRows
  BY <1>5 DEF Collected
<1>8. /\ q \o OtherRows \in Seq(S) /\ Len(q \o OtherRows) = n + Len(OtherRows)
      /\ \A i \in 1..(n + Len(OtherRows)) :
            (q \o OtherRows)[i] = IF i <= n THEN q[i] ELSE OtherRows[i - n]
  <2> HIDE DEF n
  <2>1. /\ q \o OtherRows \in Seq(S) /\ Len(q \o OtherRows) = Len(q) + Len(OtherRows)
        /\ \A i \in 1..(Len(q) + Len(OtherRows)) :
              (q \o OtherRows)[i] = IF i <= Len(q) THEN q[i] ELSE OtherRows[i - Len(q)]
    BY <1>4, <1>6, ConcatProperties
  <2> QED BY <1>4, <2>1
<1>9. PICK all : all = q \o OtherRows
  OBVIOUS
<1>10. \A i \in 1..(n + Len(OtherRows)) : all[i] = RowAt(i)
  BY <1>1, <1>4, <1>8, <1>9 DEF RowAt
<1> QED BY <1>0, <1>7, <1>8, <1>9, <1>10 DEF Total

\* A page is read.
LEMMA ExportPageInv == ASSUME LineageInv, ExportPage PROVE LineageInv'
<1> DEFINE skip == ClampSkip(export.skip)
           limit == ClampLimit(export.limit)
<1>1. /\ ExportShape(export) /\ ExportSound(export) /\ export.pc = "reading"
      /\ UNCHANGED <<lineage, used, clock>>
  BY DEF ExportPage, LineageInv
<1>2. skip = export.skip /\ skip \in Nat /\ limit \in Nat /\ limit >= 1
  BY <1>1, RecordAssumption DEF ClampSkip, ClampLimit, ExportShape
<1> HIDE DEF skip, limit
<1>31. PICK failed \in BOOLEAN :
         LET rest == Collected(skip, failed)
             end == IF skip + limit < Len(rest) THEN skip + limit ELSE Len(rest)
             part == SubSeq(rest, skip + 1, end)
         IN  export' = [export EXCEPT
                !.got = @ \o part, !.skip = skip + limit,
                !.quiet = @ /\ ~failed,
                !.pc = IF Len(part) < limit THEN "done" ELSE "reading"]
  BY DEF ExportPage, skip, limit
<1>32. PICK all : all = Collected(skip, failed)
  OBVIOUS
<1>33. PICK page :
         page = SubSeq(all, skip + 1, IF skip + limit < Len(all) THEN skip + limit ELSE Len(all))
  OBVIOUS
<1>3. /\ all = Collected(skip, failed)
      /\ page = SubSeq(all, skip + 1, IF skip + limit < Len(all) THEN skip + limit ELSE Len(all))
      /\ export' = [export EXCEPT
             !.got = @ \o page, !.skip = skip + limit,
             !.quiet = @ /\ ~failed,
             !.pc = IF Len(page) < limit THEN "done" ELSE "reading"]
  BY <1>31, <1>32, <1>33
<1>4. /\ DOMAIN export' = {"pc", "limit", "skip", "got", "quiet"}
      /\ export'.got = export.got \o page /\ export'.skip = skip + limit
      /\ export'.limit = export.limit
      /\ (export'.quiet <=> export.quiet /\ ~failed)
      /\ export'.pc = IF Len(page) < limit THEN "done" ELSE "reading"
  BY <1>1, <1>3 DEF ExportShape
<1>5. ExportShape(export')
  BY <1>1, <1>2, <1>4 DEF ExportShape
<1>6. ASSUME export'.quiet, Len(lineage) <= MaxLimit
      PROVE  /\ export'.pc = "reading" => GotFirst(export', export'.skip)
             /\ export'.pc = "done" => GotFirst(export', Total)
  <2>0. PICK S : S = Rows \union ToSet(OtherRows)
    OBVIOUS
  <2>1. GotFirst(export, skip)
    BY <1>1, <1>2, <1>4, <1>6 DEF ExportSound
  <2>2. all = Collected(0, FALSE)
    BY <1>3, <1>4, <1>6 DEF Collected
  <2>3. all \in Seq(S) /\ Len(all) = Total /\ \A i \in 1..Total : all[i] = RowAt(i)
    BY <1>6, <2>0, <2>2, CollectedRows
  <2>4. PICK end : end = IF skip + limit < Len(all) THEN skip + limit ELSE Len(all)
    OBVIOUS
  <2>5. end \in Nat /\ skip <= end /\ end <= Total /\ Total \in Nat
    BY <1>2, <2>1, <2>3, <2>4 DEF GotFirst
  <2>6. /\ page \in Seq(S) /\ Len(page) = end - skip
        /\ \A i \in 1..(end - skip) : page[i] = all[skip + i]
    <3>1. page = SubSeq(all, skip + 1, end)
      BY <1>3, <2>4
    <3>2. /\ skip + 1 \in Int /\ end \in Int
          /\ \A i \in (skip + 1)..end : all[i] \in S
      BY <1>2, <2>3, <2>5
    <3>3. /\ SubSeq(all, skip + 1, end) \in Seq(S)
          /\ Len(SubSeq(all, skip + 1, end)) =
                IF skip + 1 <= end THEN end - (skip + 1) + 1 ELSE 0
          /\ \A i \in 1..(end - (skip + 1) + 1) :
                SubSeq(all, skip + 1, end)[i] = all[(skip + 1) + i - 1]
      BY <3>2, SubSeqProperties
    <3>4. IF skip + 1 <= end THEN end - (skip + 1) + 1 = end - skip ELSE end - skip = 0
      BY <1>2, <2>5
    <3>5. end - (skip + 1) + 1 = end - skip /\ \A i \in 1..(end - skip) : (skip + 1) + i - 1 = skip + i
      BY <1>2, <2>5
    <3> HIDE DEF skip
    <3> QED BY <3>1, <3>3, <3>4, <3>5
  <2>7. /\ export.got \in Seq(S) /\ Len(export.got) = skip
        /\ \A i \in 1..skip : export.got[i] = RowAt(i)
    BY <2>0, <2>1 DEF GotFirst
  <2>8. /\ export'.got \in Seq(S) /\ Len(export'.got) = skip + (end - skip)
        /\ \A i \in 1..(skip + (end - skip)) :
              export'.got[i] = IF i <= skip THEN export.got[i] ELSE page[i - skip]
    <3>1. PICK g : g = export.got
      OBVIOUS
    <3>2. g \in Seq(S) /\ page \in Seq(S)
      BY <2>6, <2>7, <3>1
    <3>3. /\ g \o page \in Seq(S) /\ Len(g \o page) = Len(g) + Len(page)
          /\ \A i \in 1..(Len(g) + Len(page)) :
                (g \o page)[i] = IF i <= Len(g) THEN g[i] ELSE page[i - Len(g)]
      BY <3>2, ConcatProperties
    <3> QED BY <1>4, <2>6, <2>7, <3>1, <3>3
  <2>9. \A i \in 1..end : export'.got[i] = RowAt(i)
    <3> TAKE i \in 1..end
    <3>0. i \in 1..(skip + (end - skip)) /\ i \in Nat
      BY <1>2, <2>5
    <3>1. CASE i <= skip
      <4>1. export'.got[i] = export.got[i] /\ i \in 1..skip
        BY <1>2, <2>8, <3>0, <3>1
      <4> QED BY <2>7, <4>1
    <3>2. CASE i > skip
      <4>1. i - skip \in 1..(end - skip) /\ skip + (i - skip) = i /\ i \in 1..Total
        BY <1>2, <2>5, <3>2
      <4>2. page[i - skip] = all[i]
        BY <2>6, <4>1
      <4>3. export'.got[i] = page[i - skip]
        BY <1>2, <2>8, <3>0, <3>2
      <4> QED BY <2>3, <4>1, <4>2, <4>3
    <3> QED BY <1>2, <2>5, <3>1, <3>2
  <2>10. GotFirst(export', end)
    BY <1>2, <2>0, <2>5, <2>8, <2>9 DEF GotFirst
  <2>11. export'.pc = "reading" => end = skip + limit
    BY <1>2, <1>4, <2>3, <2>4, <2>5, <2>6
  <2>12. export'.pc = "done" => end = Total
    BY <1>2, <1>4, <2>3, <2>4, <2>5, <2>6, SMTT(60)
  <2> QED BY <1>4, <2>10, <2>11, <2>12
<1>7. ExportSound(export)'
  BY <1>1, <1>6 DEF ExportSound, GotFirst, Total, RowAt
<1>8. ExportShape(export)'
  BY <1>5 DEF ExportShape
<1> QED BY <1>1, <1>7, <1>8 DEF LineageInv

\* The lineage table and its export.
LEMMA LineageStep == ASSUME LineageInv, [LineageNext]_lineageVars PROVE LineageInv'
<1>1. ASSUME UNCHANGED <<lineage, used, export>>, clock' \in Int PROVE LineageInv'
  BY <1>1, ListMoves DEF LineageInv
<1>2. CASE UNCHANGED lineageVars
  BY <1>1, <1>2 DEF lineageVars, LineageInv
<1>3. CASE Tick \/ \E tier \in Tiers, d \in Days : UpdateRetention(tier, d)
  BY <1>1, <1>3 DEF Tick, UpdateRetention, LineageInv
<1>4. CASE \E s \in Sessions : RecordLineage(s)
  BY <1>4, RecordLineageInv
<1>5. CASE \/ \E tier \in Tiers, dryRun \in BOOLEAN : PurgeExpired(tier, dryRun)
           \/ ScheduledPurge
  BY <1>5, PurgeInv DEF ScheduledPurge
<1>6. CASE \E limit \in Limits : BeginExport(limit)
  BY <1>6, BeginExportInv
<1>7. CASE ExportPage
  BY <1>7, ExportPageInv
<1>8. CASE CloseExport
  BY <1>8 DEF CloseExport, NoExport, LineageInv
<1> QED BY <1>2, <1>3, <1>4, <1>5, <1>6, <1>7, <1>8 DEF LineageNext

-----------------------------------------------------------------------------
\* What the three parts keep.
RecordInv == LineageInv /\ LifecycleInv /\ TrailInv

\* The invariant behind the records: the prefix an export has got, the path of
\* every lifecycle state that was read, the saved changes that trails tell of.
THEOREM RecordInvariant == RecordSpec => []RecordInv
<1>1. RecordInit => LineageInv
  BY DEF RecordInit, LineageInv, NoExport
<1>2. RecordInit => LifecycleInv
  <2> SUFFICES ASSUME RecordInit PROVE LifecycleInv
    OBVIOUS
  <2>1. PICK v : v = stateKey
    OBVIOUS
  <2>2. v.path = << >> /\ v.stage = "design" /\ v.version = 0
    BY <2>1 DEF RecordInit
  <2>3. LegalState(v)
    BY <2>2 DEF LegalState, Stages
  <2> QED BY <2>1, <2>3 DEF RecordInit, LifecycleInv
<1>3. RecordInit => TrailInv
  BY DEF RecordInit, TrailInv, TicketInv, KeeperShape, KeeperAhead, WorksOn, TrailTellsChanges, ToSet
<1>4. RecordInv /\ [RecordNext]_recordVars => RecordInv'
  <2> SUFFICES ASSUME RecordInv, [RecordNext]_recordVars PROVE RecordInv'
    OBVIOUS
  <2>1. /\ [LineageNext]_lineageVars /\ [LifecycleNext]_lifecycleVars
        /\ [ServiceNext]_serviceVars
    BY DEF RecordNext, recordVars
  <2> QED BY <2>1, LineageStep, LifecycleStep, TrailStep DEF RecordInv
<1> QED BY <1>1, <1>2, <1>3, <1>4, PTL DEF RecordSpec, RecordInv

\* An undisturbed export holds every record once for any page size, the stored
\* lifecycle is a path of allowed transitions for any overlapping calls, and
\* the trail of a ticket tells of saved changes only, and of every change whose
\* call returned without another on the ticket meanwhile (services/dsar.py).
THEOREM RecordsDoAgree == RecordSpec => []RecordsAgree
<1>1. RecordInv => ExportedOnce
  <2> SUFFICES ASSUME LineageInv, export.pc = "done", export.quiet, Len(lineage) <= MaxLimit
               PROVE  /\ Len(export.got) = Len(lineage) + Len(OtherRows)
                      /\ {export.got[i] : i \in DOMAIN export.got} =
                           {lineage[i].id : i \in DOMAIN lineage}
                             \union {OtherRows[i] : i \in DOMAIN OtherRows}
    BY DEF RecordInv, ExportedOnce
  <2>1. GotFirst(export, Total)
    BY DEF LineageInv, ExportSound
  <2>2. /\ lineage \in Seq(LineageRows) /\ OtherRows \in Seq(ToSet(OtherRows))
        /\ export.got \in Seq(Rows \union ToSet(OtherRows)) /\ Len(export.got) = Total
    BY <2>1, RecordAssumption DEF GotFirst, LineageInv
  <2>3. /\ DOMAIN lineage = 1..Len(lineage) /\ DOMAIN OtherRows = 1..Len(OtherRows)
        /\ DOMAIN export.got = 1..Total /\ Len(lineage) \in Nat /\ Len(OtherRows) \in Nat
    BY <2>2
  <2>4. \A i \in 1..Total : export.got[i] = RowAt(i)
    BY <2>1 DEF GotFirst
  <2>5. ASSUME NEW i \in DOMAIN export.got
        PROVE  export.got[i] \in {lineage[j].id : j \in DOMAIN lineage}
                                   \union {OtherRows[j] : j \in DOMAIN OtherRows}
    <3>1. CASE i <= Len(lineage)
      BY <2>3, <2>4, <3>1 DEF RowAt
    <3>2. CASE i > Len(lineage)
      <4>1. i - Len(lineage) \in DOMAIN OtherRows
        BY <2>3, <3>2 DEF Total
      <4> QED BY <2>3, <2>4, <3>2, <4>1 DEF RowAt
    <3> QED BY <2>3, <3>1, <3>2
  <2>6. ASSUME NEW j \in DOMAIN lineage PROVE \E i \in DOMAIN export.got : export.got[i] = lineage[j].id
    <3>1. j \in 1..Total /\ j <= Len(lineage)
      BY <2>3 DEF Total
    <3> QED BY <2>3, <2>4, <3>1 DEF RowAt
  <2>7. ASSUME NEW j \in DOMAIN OtherRows PROVE \E i \in DOMAIN export.got : export.got[i] = OtherRows[j]
    <3>1. PICK i : i = j + Len(lineage)
      OBVIOUS
    <3>2. i \in 1..Total /\ ~(i <= Len(lineage)) /\ i - Len(lineage) = j
      BY <2>3, <3>1 DEF Total
    <3> QED BY <2>3, <2>4, <3>2 DEF RowAt
  <2>8. {export.got[i] : i \in DOMAIN export.got} =
          {lineage[i].id : i \in DOMAIN lineage} \union {OtherRows[i] : i \in DOMAIN OtherRows}
    BY <2>5, <2>6, <2>7
  <2> QED BY <2>2, <2>8 DEF Total
<1>2. RecordInv => LifecyclePath
  BY DEF RecordInv, LifecycleInv, LegalState, LifecyclePath
<1>3. RecordInv => TrailTellsChanges
  BY DEF RecordInv, TrailInv
<1>4. RecordInv => RecordsAgree
  BY <1>1, <1>2, <1>3 DEF RecordsAgree
<1> QED BY <1>4, RecordInvariant, PTL

-----------------------------------------------------------------------------
(***************************************************************************)
(* AuditExports, for any table, page size and timestamps, any number of    *)
(* inserts and their commits in any order between two pages, of exporters   *)
(* and of late events.                                                      *)
(***************************************************************************)

\* Committed rows have a time; ids are taken in order and committed, open or
\* rolled back.
TableInv ==
    /\ lastId \in Nat
    /\ Ids \subseteq 1..lastId
    /\ inserting \subseteq 1..lastId /\ Ids \cap inserting = {}
    /\ \A i \in Ids : auditRows[i] \in Nat

\* The sort orders rows strictly and totally, equal timestamps by id.
LEMMA SortIsStrict ==
    ASSUME TableInv, NEW sort, NEW i \in Ids, NEW j \in Ids
    PROVE  /\ ~Precedes(sort, i, i)
           /\ i # j => Precedes(sort, i, j) \/ Precedes(sort, j, i)
           /\ \A k \in Ids : Precedes(sort, i, j) /\ Precedes(sort, j, k) => Precedes(sort, i, k)
<1>1. \A k \in Ids : k \in Nat /\ auditRows[k] \in Nat
  BY DEF TableInv
<1> QED BY <1>1 DEF Precedes

\* The rows of a query that come before row i.
Before(q, i) == {j \in Matching(q) : Precedes(q.sort, j, i)}

\* The rows of a query are finitely many, and so are those before one of them.
LEMMA QueryIsFinite ==
    ASSUME TableInv, NEW q
    PROVE  /\ Matching(q) \subseteq Ids
           /\ IsFiniteSet(Matching(q)) /\ Cardinality(Matching(q)) \in Nat
           /\ \A i : IsFiniteSet(Before(q, i)) /\ Rank(q, i) \in Nat
<1>1. Ids \in SUBSET (1..lastId) /\ lastId \in Nat
  BY DEF TableInv
<1>2. IsFiniteSet(Ids)
  <2>1. 1 \in Int /\ lastId \in Int
    BY <1>1
  <2>2. IsFiniteSet(1..lastId)
    BY <2>1, FS_Interval
  <2> QED BY <1>1, <2>2, FS_Subset
<1>3. Matching(q) \in SUBSET Ids
  BY DEF Matching
<1>4. IsFiniteSet(Matching(q))
  BY <1>2, <1>3, FS_Subset
<1>5. ASSUME NEW i PROVE IsFiniteSet(Before(q, i)) /\ Rank(q, i) \in Nat
  <2>1. Before(q, i) \in SUBSET Matching(q)
    BY DEF Before
  <2>2. IsFiniteSet(Before(q, i))
    BY <1>4, <2>1, FS_Subset
  <2> QED BY <2>2, FS_CardinalityType DEF Rank, Before
<1> QED BY <1>3, <1>4, <1>5, FS_CardinalityType

\* A row that comes before another has the smaller rank.
LEMMA RankGrows ==
    ASSUME TableInv, NEW q, NEW i \in Matching(q), NEW j \in Matching(q),
           Precedes(q.sort, i, j)
    PROVE  Rank(q, i) < Rank(q, j)
<1>1. Before(q, i) \subseteq Before(q, j) /\ i \in Before(q, j) /\ i \notin Before(q, i)
  BY SortIsStrict, QueryIsFinite DEF Before
<1>2. Before(q, i) \in SUBSET Before(q, j) /\ Before(q, i) # Before(q, j)
  BY <1>1
<1>3. /\ Cardinality(Before(q, i)) <= Cardinality(Before(q, j))
      /\ Cardinality(Before(q, j)) # Cardinality(Before(q, i))
  BY <1>2, QueryIsFinite, FS_Subset
<1>4. Rank(q, i) = Cardinality(Before(q, i)) /\ Rank(q, j) = Cardinality(Before(q, j))
  BY DEF Rank, Before
<1>5. Rank(q, i) \in Nat /\ Rank(q, j) \in Nat
  BY QueryIsFinite
<1> QED BY <1>3, <1>4, <1>5

\* The ranks number the rows of a query: no two rows have one rank, and every
\* number below the number of rows is the rank of one.
LEMMA RanksNumberRows ==
    ASSUME TableInv, NEW q
    PROVE  /\ \A i \in Matching(q) : Rank(q, i) < Cardinality(Matching(q))
           /\ \A i, j \in Matching(q) : Rank(q, i) = Rank(q, j) => i = j
           /\ \A n \in 0..(Cardinality(Matching(q)) - 1) : \E i \in Matching(q) : Rank(q, i) = n
<1>0. PICK M, c : M = Matching(q) /\ c = Cardinality(M)
  OBVIOUS
<1>1. IsFiniteSet(M) /\ c \in Nat /\ M \subseteq Ids /\ \A i : Rank(q, i) \in Nat
  BY <1>0, QueryIsFinite
<1>2. ASSUME NEW i \in M PROVE Rank(q, i) < c
  <2>1. Before(q, i) \in SUBSET M /\ i \notin Before(q, i)
    BY <1>0, <1>1, SortIsStrict DEF Before
  <2>2. Cardinality(Before(q, i)) <= c /\ c # Cardinality(Before(q, i))
    BY <1>0, <1>1, <2>1, FS_Subset
  <2>3. Rank(q, i) = Cardinality(Before(q, i))
    BY DEF Rank, Before
  <2> QED BY <1>1, <2>2, <2>3
<1>3. ASSUME NEW i \in M, NEW j \in M, Rank(q, i) = Rank(q, j) PROVE i = j
  <2> SUFFICES ASSUME i # j PROVE FALSE
    OBVIOUS
  <2>1. Precedes(q.sort, i, j) \/ Precedes(q.sort, j, i)
    BY <1>1, SortIsStrict
  <2>2. Rank(q, i) < Rank(q, j) \/ Rank(q, j) < Rank(q, i)
    BY <1>0, <2>1, RankGrows
  <2> QED BY <1>1, <1>3, <2>2
<1>4. PICK R : R = 0..(c - 1)
  OBVIOUS
<1>5. IsFiniteSet(R) /\ Cardinality(R) = c
  BY <1>1, <1>4, FS_Interval
<1>6. PICK f : f = [i \in M |-> Rank(q, i)]
  OBVIOUS
<1>7. f \in Injection(M, R)
  BY <1>1, <1>2, <1>3, <1>4, <1>6 DEF Injection, IsInjective
<1>8. f \in Surjection(M, R)
  BY <1>0, <1>5, <1>7, FS_Injection
<1>9. \A n \in R : \E i \in M : Rank(q, i) = n
  BY <1>6, <1>8 DEF Surjection
<1> QED BY <1>0, <1>2, <1>3, <1>4, <1>9

\* Two lists without repetition and without a common element, joined.
LEMMA InjectiveJoin ==
    ASSUME NEW T, NEW s \in Seq(T), NEW t \in Seq(T), IsInjective(s), IsInjective(t),
           ToSet(s) \cap ToSet(t) = {}
    PROVE  IsInjective(s \o t)
<1>1. PICK u : u = s \o t
  OBVIOUS
<1>2. /\ DOMAIN u = 1..(Len(s) + Len(t)) /\ Len(s) \in Nat /\ Len(t) \in Nat
      /\ DOMAIN s = 1..Len(s) /\ DOMAIN t = 1..Len(t)
      /\ \A n \in 1..(Len(s) + Len(t)) : u[n] = IF n <= Len(s) THEN s[n] ELSE t[n - Len(s)]
  BY <1>1
<1>3. ASSUME NEW n \in DOMAIN u PROVE IF n <= Len(s) THEN n \in DOMAIN s /\ u[n] = s[n]
                                      ELSE n - Len(s) \in DOMAIN t /\ u[n] = t[n - Len(s)]
  BY <1>2
<1>4. ASSUME NEW n \in DOMAIN u, NEW m \in DOMAIN u, u[n] = u[m] PROVE n = m
  <2>1. n \in Nat /\ m \in Nat
    BY <1>2
  <2>2. \A k \in DOMAIN s, l \in DOMAIN t : s[k] # t[l]
    BY DEF ToSet
  <2>3. CASE n <= Len(s) /\ m <= Len(s)
    BY <1>3, <1>4, <2>3 DEF IsInjective
  <2>4. CASE ~(n <= Len(s)) /\ ~(m <= Len(s))
    <3>1. n - Len(s) = m - Len(s)
      BY <1>3, <1>4, <2>4 DEF IsInjective
    <3> QED BY <1>2, <2>1, <3>1
  <2>5. CASE (n <= Len(s)) # (m <= Len(s))
    BY <1>3, <1>4, <2>2, <2>5
  <2> QED BY <2>3, <2>4, <2>5
<1> QED BY <1>1, <1>4 DEF IsInjective

\* A page holds the rows whose ranks are the PageSize ones behind the offset,
\* in their order, each once; only the last page is short.
LEMMA PageHolds ==
    ASSUME TableInv, NEW q, q.offset \in Nat, NEW b, b = GetEvents(q)
    PROVE  /\ b \in Seq(Matching(q)) /\ Len(b) = PageLength(q) /\ IsInjective(b)
           /\ \A n \in 1..Len(b) : Rank(q, b[n]) = q.offset + n - 1
           /\ \A i \in Matching(q) :
                 q.offset <= Rank(q, i) /\ Rank(q, i) < q.offset + PageSize => i \in ToSet(b)
           /\ Len(b) < PageSize => \A i \in Matching(q) : Rank(q, i) < q.offset + PageSize
           /\ b = <<>> => \A i \in Matching(q) : Rank(q, i) < q.offset
           /\ Len(b) <= PageSize
<1>0. PICK M, c, o, p : M = Matching(q) /\ c = Cardinality(M) /\ o = q.offset /\ p = PageLength(q)
  OBVIOUS
<1>1. /\ c \in Nat /\ o \in Nat /\ PageSize \in Nat \ {0}
      /\ \A i \in M : Rank(q, i) \in Nat /\ Rank(q, i) < c
      /\ \A n \in 0..(c - 1) : \E i \in M : Rank(q, i) = n
  BY <1>0, QueryIsFinite, RanksNumberRows, ExportAssumption
<1>2. /\ p \in Nat /\ p <= PageSize
      /\ p # 0 => o + p <= c
      /\ p < PageSize => c <= o + p \/ (p = 0 /\ c <= o)
  BY <1>0, <1>1 DEF PageLength, Least
<1>3. b = [n \in 1..p |-> CHOOSE i \in M : Rank(q, i) = o + n - 1]
  BY <1>0 DEF GetEvents
<1>4. ASSUME NEW n \in 1..p PROVE b[n] \in M /\ Rank(q, b[n]) = o + n - 1
  <2>1. o + n - 1 \in 0..(c - 1)
    BY <1>1, <1>2
  <2>2. \E i \in M : Rank(q, i) = o + n - 1
    BY <1>1, <2>1
  <2>3. b[n] = CHOOSE i \in M : Rank(q, i) = o + n - 1
    BY <1>3
  <2> QED BY <2>2, <2>3, Zenon
<1>5. b \in [1..p -> M]
  BY <1>3, <1>4
<1>6. b \in Seq(M) /\ Len(b) = p /\ DOMAIN b = 1..p
  BY <1>2, <1>5
<1>7. IsInjective(b)
  <2> SUFFICES ASSUME NEW n \in 1..p, NEW m \in 1..p, b[n] = b[m] PROVE n = m
    BY <1>6 DEF IsInjective
  <2>1. o + n - 1 = o + m - 1
    BY <1>4
  <2> QED BY <1>1, <2>1
<1>8. ASSUME NEW i \in M, o <= Rank(q, i), Rank(q, i) < o + PageSize PROVE i \in ToSet(b)
  <2>1. PICK n : n = Rank(q, i) - o + 1
    OBVIOUS
  <2>2. n \in 1..p
    BY <1>1, <1>2, <1>8, <2>1
  <2>3. Rank(q, b[n]) = Rank(q, i) /\ b[n] \in M
    BY <1>1, <1>4, <2>1, <2>2
  <2>4. b[n] = i
    BY <1>0, <2>3, RanksNumberRows
  <2> QED BY <1>6, <2>2, <2>4 DEF ToSet
<1>9. p < PageSize => \A i \in M : Rank(q, i) < o + PageSize
  BY <1>1, <1>2
<1>10. b = <<>> => \A i \in M : Rank(q, i) < o
  BY <1>1, <1>2, <1>6
<1> QED BY <1>0, <1>2, <1>4, <1>6, <1>7, <1>8, <1>9, <1>10

\* What a keyset walk of q has sent is what lies up to its cursor.
SentUpTo(q) ==
    /\ \A i \in q.base : i \in ToSet(q.sent) \/ Beyond(q.sort, q.cursor, i)
    /\ \A i \in ToSet(q.sent) : ~Beyond(q.sort, q.cursor, i)
    /\ IsInjective(q.sent)
    /\ q.kind = "snapshot" => ToSet(q.sent) \subseteq q.base \cup q.open

\* What an offset walk has not sent is behind its offset.
SentOrBehind(q) == \A i \in q.base : i \in ToSet(q.sent) \/ q.offset <= Rank(q, i)

SentAll(q) ==
    /\ q.base \subseteq ToSet(q.sent)
    /\ q.kind # "offset" => /\ IsInjective(q.sent)
                            /\ q.kind = "snapshot" => ToSet(q.sent) \subseteq q.base \cup q.open

WalkShape(q) ==
    q \in [at : {"idle", "paging", "done", "failed"}, kind : Kinds, sort : Sorts,
           cursor : [ts : Nat, id : Nat], offset : Nat, bound : Nat,
           base : SUBSET Nat, open : SUBSET Nat, sent : Seq(Nat)]

\* The base is the table as the walk began, and every id up to the bound was
\* taken by then; the cursor is the sort key of a row, and an offset walk has
\* none.
WalkRows(q) ==
    /\ q.base \subseteq Ids /\ \A i \in q.base : i <= q.bound
    /\ q.bound <= lastId
    /\ \A i \in Ids \cup inserting : i <= q.bound => i \in q.base \cup q.open
    /\ ToSet(q.sent) \subseteq Ids
    /\ (q.kind = "offset") <=> (q.sort = "none")
    /\ q.cursor # NoCursor => q.cursor.id \in Ids /\ q.cursor.ts = auditRows[q.cursor.id]
    /\ IF q.kind = "offset" THEN q.cursor = NoCursor ELSE q.offset = 0

ReaderInv ==
    /\ TableInv
    /\ WalkShape(reader)
    /\ WalkRows(reader)
    /\ reader.at = "paging" => IF reader.kind = "offset" THEN SentOrBehind(reader) ELSE SentUpTo(reader)
    /\ reader.at = "done" => SentAll(reader)

\* A keyset page: every row of the walk's beginning is sent or behind the last
\* row of the page, and what was sent before is not sent again.
LEMMA KeysetPage ==
    ASSUME ReaderInv, reader.at = "paging", reader.kind # "offset", NEW b, b = GetEvents(reader)
    PROVE  /\ b \in Seq(Ids)
           /\ IsInjective(reader.sent \o b)
           /\ reader.kind = "snapshot" => ToSet(reader.sent \o b) \subseteq reader.base \cup reader.open
           /\ Len(b) < PageSize => reader.base \subseteq ToSet(reader.sent \o b)
           /\ ~(Len(b) < PageSize) =>
                 /\ Last(b) \in Ids
                 /\ SentUpTo([reader EXCEPT !.cursor = [ts |-> auditRows[Last(b)], id |-> Last(b)],
                                            !.sent = @ \o b])
<1>0. PICK q, M : q = reader /\ M = Matching(q)
  OBVIOUS
<1>1. /\ TableInv /\ q.offset = 0 /\ q.sent \in Seq(Nat)
      /\ q.base \subseteq Ids /\ \A i \in q.base : i <= q.bound
      /\ \A i \in Ids : i <= q.bound => i \in q.base \cup q.open
      /\ ToSet(q.sent) \subseteq Ids /\ q.sort \in {"timestamp:asc", "timestamp:desc"}
      /\ SentUpTo(q)
  BY <1>0 DEF ReaderInv, WalkShape, WalkRows, Sorts
<1>2. Ids \subseteq Nat \ {0} /\ q.base \subseteq Ids /\ PageSize \in Nat \ {0}
  BY <1>1, ExportAssumption DEF TableInv
<1>3. /\ b \in Seq(M) /\ IsInjective(b)
      /\ \A n \in 1..Len(b) : Rank(q, b[n]) = n - 1
      /\ \A i \in M : Rank(q, i) < PageSize => i \in ToSet(b)
      /\ Len(b) < PageSize => \A i \in M : Rank(q, i) < PageSize
      /\ Len(b) <= PageSize
      /\ \A i \in M : Rank(q, i) \in Nat
  <2>1. PICK o : o = q.offset /\ o = 0
    BY <1>1
  <2>2. /\ b \in Seq(M) /\ IsInjective(b)
        /\ \A n \in 1..Len(b) : Rank(q, b[n]) = o + n - 1
        /\ \A i \in M : o <= Rank(q, i) /\ Rank(q, i) < o + PageSize => i \in ToSet(b)
        /\ Len(b) < PageSize => \A i \in M : Rank(q, i) < o + PageSize
        /\ Len(b) <= PageSize
    BY <1>0, <1>1, <2>1, PageHolds
  <2>3. \A i \in M : Rank(q, i) \in Nat
    BY <1>0, <1>1, QueryIsFinite
  <2> QED BY <1>2, <2>1, <2>2, <2>3
<1>4. PICK T, B : T = ToSet(q.sent) /\ B = ToSet(b)
  OBVIOUS
<1>5. /\ M \subseteq Ids /\ B \subseteq M
      /\ \A i \in M : Beyond(q.sort, q.cursor, i) /\ (q.kind = "snapshot" => i \in q.base \cup q.open)
      /\ \A i \in q.base : Beyond(q.sort, q.cursor, i) => i \in M
  <2>1. B \subseteq M
    BY <1>3, <1>4 DEF ToSet
  <2> QED BY <1>0, <1>1, <2>1 DEF Matching
<1>6. b \in Seq(Ids) /\ b \in Seq(Nat)
  <2>1. Len(b) \in Nat /\ b = [n \in 1..Len(b) |-> b[n]] /\ \A n \in 1..Len(b) : b[n] \in M
    BY <1>3
  <2>2. \A n \in 1..Len(b) : b[n] \in Ids
    BY <1>5, <2>1
  <2>3. Ids \subseteq Nat
    BY <1>2
  <2>4. b \in Seq(Ids)
    BY <2>1, <2>2
  <2> QED BY <2>1, <2>2, <2>3, <2>4
<1>7. ToSet(q.sent \o b) = T \cup B
  <2>1. PICK v : v = q.sent
    OBVIOUS
  <2>2. v \in Seq(Nat) /\ 0 \in Nat
    BY <1>1, <2>1
  <2>3. ToSet(v \o b) = ToSet(v) \cup ToSet(b)
    BY <1>6, <2>2, ListElements
  <2> QED BY <1>4, <2>1, <2>3
<1>8. T \cap B = {} /\ (q.kind = "snapshot" => T \subseteq q.base \cup q.open)
  BY <1>1, <1>4, <1>5 DEF SentUpTo
<1>9. IsInjective(q.sent \o b)
  BY <1>1, <1>3, <1>4, <1>6, <1>8, InjectiveJoin DEF SentUpTo
<1>10. q.kind = "snapshot" => T \cup B \subseteq q.base \cup q.open
  BY <1>5, <1>8
<1>11. ASSUME Len(b) < PageSize PROVE q.base \subseteq T \cup B
  <2> SUFFICES ASSUME NEW i \in q.base, i \notin T PROVE i \in B
    OBVIOUS
  <2>1. i \in M
    BY <1>1, <1>2, <1>4, <1>5 DEF SentUpTo
  <2> QED BY <1>3, <1>4, <1>11, <2>1
<1>12. ASSUME ~(Len(b) < PageSize)
       PROVE  /\ Last(b) \in Ids
              /\ SentUpTo([q EXCEPT !.cursor = [ts |-> auditRows[Last(b)], id |-> Last(b)],
                                    !.sent = @ \o b])
  <2>1. PICK l : l = Last(b)
    OBVIOUS
  <2>2. Len(b) = PageSize /\ l = b[PageSize] /\ l \in M /\ Rank(q, l) = PageSize - 1 /\ l \in Ids
    <3>1. Len(b) \in Nat
      BY <1>3
    <3>2. Len(b) = PageSize
      BY <1>2, <1>3, <1>12, <3>1
    <3>3. l = b[PageSize] /\ PageSize \in 1..Len(b)
      BY <1>2, <2>1, <3>2 DEF Last
    <3>4. \A n \in 1..Len(b) : b[n] \in M
      BY <1>3
    <3> QED BY <1>3, <1>5, <3>2, <3>3, <3>4
  <2>3. PICK c : c = [ts |-> auditRows[l], id |-> l]
    OBVIOUS
  <2>4. c # NoCursor /\ c.ts = auditRows[l] /\ c.id = l
    BY <1>2, <2>2, <2>3 DEF NoCursor
  <2>5. \A i \in Ids : Beyond(q.sort, c, i) <=> Precedes(q.sort, l, i)
    BY <1>1, <1>2, <2>2, <2>4 DEF Beyond, Precedes
  <2>6. ASSUME NEW i \in q.base PROVE i \in T \cup B \/ Beyond(q.sort, c, i)
    <3> SUFFICES ASSUME i \notin T, i \notin B PROVE Beyond(q.sort, c, i)
      OBVIOUS
    <3>1. i \in M /\ i \in Ids
      BY <1>1, <1>2, <1>4, <1>5 DEF SentUpTo
    <3>2. ~(Rank(q, i) < PageSize)
      BY <1>3, <1>4, <3>1
    <3>3. i # l /\ ~(Rank(q, i) < Rank(q, l))
      BY <1>2, <1>3, <2>2, <3>1, <3>2
    <3>4. ~Precedes(q.sort, i, l)
      BY <1>0, <1>1, <2>2, <3>1, <3>3, RankGrows
    <3> QED BY <1>1, <2>2, <2>5, <3>1, <3>3, <3>4, SortIsStrict
  <2>7. ASSUME NEW i \in B PROVE ~Beyond(q.sort, c, i)
    <3>1. PICK n \in 1..Len(b) : i = b[n]
      BY <1>3, <1>4 DEF ToSet
    <3>2. i \in M /\ i \in Ids /\ Rank(q, i) <= Rank(q, l)
      BY <1>2, <1>3, <1>5, <2>2, <3>1
    <3>3. ~Precedes(q.sort, l, i)
      BY <1>0, <1>1, <1>3, <2>2, <3>2, RankGrows
    <3> QED BY <2>5, <3>2, <3>3
  <2>8. ASSUME NEW i \in T PROVE ~Beyond(q.sort, c, i)
    <3>1. i \in Ids /\ ~Beyond(q.sort, q.cursor, i) /\ Beyond(q.sort, q.cursor, l)
      BY <1>1, <1>4, <1>5, <2>2 DEF SentUpTo
    <3>2. q.cursor # NoCursor
      BY <3>1 DEF Beyond
    <3>3. q.cursor.id \in Ids /\ q.cursor.ts = auditRows[q.cursor.id]
      BY <1>0, <3>2 DEF ReaderInv, WalkRows
    <3>4. \A k \in Ids : Beyond(q.sort, q.cursor, k) <=> Precedes(q.sort, q.cursor.id, k)
      BY <1>1, <1>2, <3>2, <3>3 DEF Beyond, Precedes
    <3>5. Precedes(q.sort, q.cursor.id, l) /\ ~Precedes(q.sort, q.cursor.id, i)
      BY <2>2, <3>1, <3>4
    <3>6. ~Precedes(q.sort, l, i)
      <4>1. PICK m \in Ids : m = q.cursor.id
        BY <3>3
      <4>2. Precedes(q.sort, m, l) /\ Precedes(q.sort, l, i) => Precedes(q.sort, m, i)
        BY <1>1, <2>2, <3>1, SortIsStrict
      <4> QED BY <3>5, <4>1, <4>2
    <3> QED BY <2>5, <3>1, <3>6
  <2>9. PICK p : p = [q EXCEPT !.cursor = c, !.sent = @ \o b]
    OBVIOUS
  <2>10. /\ p.cursor = c /\ p.sent = q.sent \o b /\ p.sort = q.sort /\ p.base = q.base /\ p.kind = q.kind
         /\ p.open = q.open
    BY <1>0, <2>9 DEF ReaderInv, WalkShape
  <2>11. ToSet(p.sent) = T \cup B /\ IsInjective(p.sent)
    BY <1>7, <1>9, <2>10
  <2>12. SentUpTo(p)
    BY <1>10, <2>6, <2>7, <2>8, <2>10, <2>11 DEF SentUpTo
  <2> QED BY <2>1, <2>2, <2>3, <2>9, <2>12
<1> QED BY <1>0, <1>6, <1>7, <1>9, <1>10, <1>11, <1>12

\* An offset page: a row of the walk's beginning is sent, or it is behind the
\* page as well.
LEMMA OffsetPage ==
    ASSUME ReaderInv, reader.at = "paging", reader.kind = "offset", NEW b, b = GetEvents(reader)
    PROVE  /\ b \in Seq(Ids)
           /\ b = <<>> => reader.base \subseteq ToSet(reader.sent)
           /\ \A i \in reader.base : \/ i \in ToSet(reader.sent) \cup ToSet(b)
                                     \/ reader.offset + PageSize <= Rank(reader, i)
<1>0. PICK q, o : q = reader /\ o = q.offset
  OBVIOUS
<1>1. /\ TableInv /\ o \in Nat /\ q.cursor = NoCursor /\ q.kind = "offset"
      /\ q.base \subseteq Ids /\ SentOrBehind(q) /\ PageSize \in Nat
  BY <1>0, ExportAssumption DEF ReaderInv, WalkShape, WalkRows
<1>2. Matching(q) = Ids
  BY <1>1 DEF Matching, Beyond
<1>3. \A i : Rank(q, i) \in Nat
  BY <1>1, QueryIsFinite
<1>4. /\ b \in Seq(Ids)
      /\ \A i \in Ids : o <= Rank(q, i) /\ Rank(q, i) < o + PageSize => i \in ToSet(b)
      /\ b = <<>> => \A i \in Ids : Rank(q, i) < o
  BY <1>0, <1>1, <1>2, PageHolds
<1>5. \A i \in q.base : i \in ToSet(q.sent) \/ o <= Rank(q, i)
  BY <1>0, <1>1 DEF SentOrBehind
<1>6. ASSUME b = <<>>, NEW i \in q.base PROVE i \in ToSet(q.sent)
  BY <1>1, <1>3, <1>4, <1>5, <1>6
<1>7. ASSUME NEW i \in q.base, i \notin ToSet(q.sent), i \notin ToSet(b) PROVE o + PageSize <= Rank(q, i)
  BY <1>1, <1>3, <1>4, <1>5, <1>7
<1> QED BY <1>0, <1>4, <1>6, <1>7

\* A walk p that is sound in a table that stays as it is.
LEMMA ReaderMoves ==
    ASSUME UNCHANGED tableVars, TableInv, NEW p, p = reader',
           WalkShape(p), WalkRows(p),
           p.at = "paging" => IF p.kind = "offset" THEN SentOrBehind(p) ELSE SentUpTo(p),
           p.at = "done" => SentAll(p)
    PROVE  ReaderInv'
<1>0. auditRows' = auditRows /\ inserting' = inserting /\ lastId' = lastId /\ Ids' = Ids
  BY DEF tableVars, Ids
<1>1. WalkShape(reader)'
  BY DEF WalkShape
<1>2. WalkRows(reader)' /\ TableInv'
  BY <1>0 DEF WalkRows, TableInv
<1>3. (SentAll(reader))' <=> SentAll(p)
  BY DEF SentAll
<1>4. (SentOrBehind(reader))' <=> SentOrBehind(p)
  BY <1>0 DEF SentOrBehind, Rank, Matching, Precedes, Beyond
<1>5. (SentUpTo(reader))' <=> SentUpTo(p)
  BY <1>0 DEF SentUpTo, Beyond
<1> QED BY <1>1, <1>2, <1>3, <1>4, <1>5 DEF ReaderInv

\* A page moves the walk on, or ends it.
LEMMA FetchPageInv == ASSUME ReaderInv, FetchPage PROVE ReaderInv'
<1>0. PICK q, b, p : q = reader /\ b = GetEvents(reader) /\ p = reader'
  OBVIOUS
<1>1. /\ q.at = "paging" /\ UNCHANGED tableVars
      /\ p = IF LastPage(q, b) THEN [q EXCEPT !.at = "done", !.sent = @ \o b] ELSE Advance(q, b)
  BY <1>0 DEF FetchPage
<1>2. /\ WalkShape(q) /\ WalkRows(q) /\ TableInv
      /\ IF q.kind = "offset" THEN SentOrBehind(q) ELSE SentUpTo(q)
  BY <1>0, <1>1 DEF ReaderInv
<1>3. /\ Ids \subseteq Nat /\ PageSize \in Nat \ {0} /\ q.sent \in Seq(Nat) /\ q.offset \in Nat /\ q.base \in SUBSET Nat
  BY <1>2, ExportAssumption DEF TableInv, WalkShape
<1>4. b \in Seq(Ids)
  BY <1>0, <1>1, KeysetPage, OffsetPage
<1>5. b \in Seq(Nat)
  <2>1. Len(b) \in Nat /\ b = [n \in 1..Len(b) |-> b[n]] /\ \A n \in 1..Len(b) : b[n] \in Ids
    BY <1>4
  <2> QED BY <1>3, <2>1
<1>6. PICK v : v = q.sent \o b
  OBVIOUS
<1>7. v \in Seq(Nat) /\ ToSet(v) = ToSet(q.sent) \cup ToSet(b) /\ ToSet(v) \subseteq Ids
  <2>1. PICK u : u = q.sent
    OBVIOUS
  <2>2. u \in Seq(Nat) /\ 0 \in Nat
    BY <1>3, <2>1
  <2>3. ToSet(u \o b) = ToSet(u) \cup ToSet(b)
    BY <1>5, <2>2, ListElements
  <2>4. ToSet(b) \subseteq Ids
    BY <1>4 DEF ToSet
  <2>5. v = u \o b /\ v \in Seq(Nat)
    BY <1>5, <1>6, <2>1, <2>2
  <2> QED BY <1>2, <2>1, <2>3, <2>4, <2>5 DEF WalkRows
<1>8. CASE LastPage(q, b)
  <2>1. p = [q EXCEPT !.at = "done", !.sent = v]
    BY <1>1, <1>6, <1>8
  <2>2. /\ WalkShape(p) /\ p.at = "done" /\ p.sent = v /\ p.base = q.base /\ p.kind = q.kind
        /\ p.sort = q.sort /\ p.bound = q.bound /\ p.open = q.open /\ p.cursor = q.cursor /\ p.offset = q.offset
    BY <1>2, <1>7, <2>1 DEF WalkShape
  <2>3. WalkRows(p)
    BY <1>2, <1>7, <2>2 DEF WalkRows
  <2>4. ASSUME q.kind = "offset" PROVE SentAll(p)
    <3>1. q.base \subseteq ToSet(q.sent)
      BY <1>0, <1>1, <1>8, <2>4, OffsetPage DEF LastPage
    <3> QED BY <1>7, <2>2, <2>4, <3>1 DEF SentAll
  <2>5. ASSUME q.kind # "offset" PROVE SentAll(p)
    <3>1. /\ IsInjective(v) /\ q.base \subseteq ToSet(v)
          /\ q.kind = "snapshot" => ToSet(v) \subseteq q.base \cup q.open
      BY <1>0, <1>1, <1>6, <1>8, <2>5, KeysetPage DEF LastPage
    <3> QED BY <2>2, <3>1 DEF SentAll
  <2>6. SentAll(p)
    BY <2>4, <2>5
  <2> QED BY <1>0, <1>1, <1>2, <2>2, <2>3, <2>6, ReaderMoves
<1>9. CASE ~LastPage(q, b) /\ q.kind = "offset"
  <2>0. PICK o : o = q.offset + PageSize
    OBVIOUS
  <2>1. o \in Nat /\ p = [q EXCEPT !.offset = o, !.sent = v]
    BY <1>1, <1>3, <1>6, <1>9, <2>0 DEF Advance
  <2>2. /\ WalkShape(p) /\ p.at = "paging" /\ p.sent = v /\ p.base = q.base /\ p.kind = q.kind
        /\ p.sort = q.sort /\ p.bound = q.bound /\ p.open = q.open /\ p.cursor = q.cursor /\ p.offset = o
    BY <1>1, <1>2, <1>7, <2>1 DEF WalkShape
  <2>3. WalkRows(p)
    BY <1>2, <1>7, <1>9, <2>2 DEF WalkRows
  <2>4. SentOrBehind(p)
    <3>1. \A i : Rank(p, i) = Rank(q, i)
      BY <2>2 DEF Rank, Matching
    <3>2. \A i \in q.base : i \in ToSet(v) \/ o <= Rank(q, i)
      BY <1>0, <1>1, <1>7, <1>9, <2>0, OffsetPage
    <3> QED BY <2>2, <3>1, <3>2 DEF SentOrBehind
  <2> QED BY <1>0, <1>1, <1>2, <1>9, <2>2, <2>3, <2>4, ReaderMoves
<1>10. CASE ~LastPage(q, b) /\ q.kind # "offset"
  <2>1. PICK l, c : l = Last(b) /\ c = [ts |-> auditRows[l], id |-> l]
    OBVIOUS
  <2>2. p = [q EXCEPT !.cursor = c, !.sent = v]
    BY <1>1, <1>6, <1>10, <2>1 DEF Advance
  <2>3. l \in Ids /\ SentUpTo(p)
    BY <1>0, <1>1, <1>6, <1>10, <2>1, <2>2, KeysetPage DEF LastPage
  <2>4. auditRows[l] \in Nat /\ l \in Nat
    BY <1>2, <1>3, <2>3 DEF TableInv
  <2>5. c \in [ts : Nat, id : Nat] /\ c.id = l /\ c.ts = auditRows[l]
    BY <2>1, <2>4
  <2>6. /\ WalkShape(p) /\ p.at = "paging" /\ p.sent = v /\ p.base = q.base /\ p.kind = q.kind
        /\ p.sort = q.sort /\ p.bound = q.bound /\ p.open = q.open /\ p.cursor = c /\ p.offset = q.offset
    BY <1>1, <1>2, <1>7, <2>2, <2>5 DEF WalkShape
  <2>7. WalkRows(p)
    BY <1>2, <1>7, <1>10, <2>3, <2>5, <2>6 DEF WalkRows
  <2> QED BY <1>0, <1>1, <1>2, <1>10, <2>3, <2>6, <2>7, ReaderMoves
<1> QED BY <1>8, <1>9, <1>10

\* An id taken lies above every bound; one that is rolled back goes.
LEMMA OpenIdInv == ASSUME ReaderInv, TakeId \/ \E i \in inserting : RollBackRow(i) PROVE ReaderInv'
<1>1. PICK q, z, n, w : q = reader /\ z = lastId /\ n = lastId' /\ w = inserting'
  OBVIOUS
<1>2. /\ reader' = q /\ auditRows' = auditRows /\ Ids' = Ids /\ WalkShape(q)
      /\ \/ n = z + 1 /\ w = inserting \cup {z + 1}
         \/ n = z /\ w \subseteq inserting
  BY <1>1 DEF ReaderInv, TakeId, RollBackRow, Ids
<1>3. /\ z \in Nat /\ Ids \subseteq 1..z /\ inserting \subseteq 1..z /\ q.bound \in Nat /\ q.bound <= z
      /\ \A i \in Ids \cup inserting : i <= q.bound => i \in q.base \cup q.open
      /\ Ids \cap inserting = {}
  BY <1>1, <1>2 DEF ReaderInv, TableInv, WalkRows, WalkShape
<1>4. n \in Nat /\ z <= n /\ Ids \subseteq 1..n /\ w \subseteq 1..n /\ Ids \cap w = {}
  <2>1. CASE n = z /\ w \subseteq inserting
    BY <1>3, <2>1
  <2>2. CASE n = z + 1 /\ w = inserting \cup {z + 1}
    <3>1. n \in Nat /\ z <= n /\ n \in 1..n /\ 1..z \subseteq 1..n /\ n \notin 1..z
      BY <1>3, <2>2
    <3> QED BY <1>3, <2>2, <3>1
  <2> QED BY <1>2, <2>1, <2>2
<1>5. TableInv'
  BY <1>1, <1>2, <1>4 DEF ReaderInv, TableInv
<1>6. q.bound <= n /\ \A i \in Ids \cup w : i <= q.bound => i \in q.base \cup q.open
  BY <1>2, <1>3, <1>4
<1>7. WalkRows(reader)'
  BY <1>1, <1>2, <1>6 DEF ReaderInv, WalkRows
<1>8. SentAll(reader)' <=> SentAll(q)
  BY <1>2 DEF SentAll
<1>9. SentOrBehind(reader)' <=> SentOrBehind(q)
  BY <1>2 DEF SentOrBehind, Rank, Matching, Precedes, Beyond
<1>10. SentUpTo(reader)' <=> SentUpTo(q)
  BY <1>2 DEF SentUpTo, Beyond
<1> QED BY <1>1, <1>2, <1>5, <1>7, <1>8, <1>9, <1>10 DEF ReaderInv

\* A row that becomes visible comes before some rows and leaves the sort keys
\* of the others alone: ranks only grow.
LEMMA CommitRowInv == ASSUME ReaderInv, NEW r \in inserting, CommitRow(r) PROVE ReaderInv'
<1>1. PICK q, z : q = reader /\ z = lastId
  OBVIOUS
<1>2. PICK t \in Nat : auditRows' = [k \in Ids \cup {r} |-> IF k = r THEN t ELSE auditRows[k]]
  BY ExportAssumption DEF CommitRow
<1>3. /\ reader' = q /\ lastId' = z /\ inserting' = inserting \ {r} /\ WalkShape(q) /\ WalkRows(q)
      /\ TableInv /\ z \in Nat /\ Ids \subseteq 1..z /\ inserting \subseteq 1..z
      /\ \A i \in Ids : auditRows[i] \in Nat
      /\ q.at = "paging" => IF q.kind = "offset" THEN SentOrBehind(q) ELSE SentUpTo(q)
      /\ q.at = "done" => SentAll(q)
  BY <1>1 DEF ReaderInv, CommitRow, TableInv
<1>4. Ids' = Ids \cup {r} /\ r \notin Ids /\ \A i \in Ids : auditRows'[i] = auditRows[i]
  BY <1>2, <1>3 DEF Ids, TableInv
<1>5. (\A i \in Ids' : auditRows'[i] \in Nat) /\ Ids' \subseteq 1..z /\ Ids' \cap inserting' = {}
  BY <1>2, <1>3, <1>4 DEF TableInv
<1>6. TableInv'
  BY <1>3, <1>5 DEF TableInv
<1>7. WalkShape(reader)'
  BY <1>3 DEF WalkShape
<1>8. q.base \subseteq Ids /\ ToSet(q.sent) \subseteq Ids
  BY <1>3 DEF WalkRows
<1>9. WalkRows(reader)'
  BY <1>1, <1>3, <1>4 DEF WalkRows
<1>10. SentUpTo(q) => SentUpTo(reader)'
  <2>1. \A i \in Ids : Beyond(reader.sort, reader.cursor, i)' <=> Beyond(q.sort, q.cursor, i)
    BY <1>3, <1>4 DEF Beyond
  <2> QED BY <1>3, <1>8, <2>1 DEF SentUpTo
<1>11. SentOrBehind(q) => SentOrBehind(reader)'
  <2> SUFFICES ASSUME NEW i \in q.base, q.offset <= Rank(q, i) PROVE q.offset <= Rank(q, i)'
    BY <1>3 DEF SentOrBehind
  <2>1. PICK A, B : A = Before(q, i) /\ B = {j \in Matching(q)' : Precedes(q.sort, j, i)'}
    OBVIOUS
  <2>2. Matching(q) \subseteq Matching(q)' /\ Matching(q) \subseteq Ids /\ Matching(q)' \subseteq Ids'
    BY <1>4 DEF Matching, Beyond
  <2>3. A \subseteq B /\ B \subseteq 1..z
    BY <1>4, <1>5, <1>8, <2>1, <2>2 DEF Before, Precedes
  <2>4. IsFiniteSet(B) /\ Cardinality(A) <= Cardinality(B) /\ Cardinality(B) \in Nat
    <3>1. IsFiniteSet(B)
      <4>1. 1 \in Int /\ z \in Int /\ B \in SUBSET (1..z)
        BY <1>3, <2>3
      <4>2. IsFiniteSet(1..z)
        BY <4>1, FS_Interval
      <4> QED BY <4>1, <4>2, FS_Subset
    <3>2. A \in SUBSET B
      BY <2>3
    <3> QED BY <3>1, <3>2, FS_Subset, FS_CardinalityType
  <2>5. Rank(q, i) = Cardinality(A) /\ Rank(q, i)' = Cardinality(B)
    BY <2>1 DEF Rank, Before
  <2>6. q.offset \in Nat /\ Rank(q, i) \in Nat
    BY <1>3, QueryIsFinite DEF WalkShape
  <2> QED BY <2>4, <2>5, <2>6
<1>12. SentAll(q) => SentAll(reader)'
  BY <1>3 DEF SentAll
<1> QED BY <1>3, <1>6, <1>7, <1>9, <1>10, <1>11, <1>12 DEF ReaderInv

\* A walk begins with nothing sent, in the table as it is.
LEMMA RequestInv ==
    ASSUME ReaderInv, NEW kind \in Kinds, NEW sort \in Sorts, Request(kind, sort) PROVE ReaderInv'
<1>0. PICK z \in Ids \cup {0} :
        /\ \A i \in Ids : i <= z
        /\ reader' = [NoReader EXCEPT !.at = "paging", !.kind = kind, !.sort = sort,
                                      !.bound = z, !.base = Ids, !.open = inserting]
  BY DEF Request
<1>1. PICK p : p = reader'
  OBVIOUS
<1>2. /\ UNCHANGED tableVars /\ TableInv /\ ((kind = "offset") <=> (sort = "none"))
      /\ p = [NoReader EXCEPT !.at = "paging", !.kind = kind, !.sort = sort, !.bound = z, !.base = Ids,
                              !.open = inserting]
  BY <1>0, <1>1 DEF ReaderInv, Request
<1>3. z \in Nat /\ z <= lastId /\ \A i \in Ids : i <= z
  BY <1>0, <1>2 DEF TableInv
<1>4. /\ p = [at |-> "paging", kind |-> kind, sort |-> sort, cursor |-> NoCursor, offset |-> 0,
              bound |-> z, base |-> Ids, open |-> inserting, sent |-> <<>>]
  BY <1>2 DEF NoReader
<1>5. <<>> \in Seq(Nat) /\ ToSet(<<>>) = {} /\ IsInjective(<<>>)
  BY DEF ToSet, IsInjective
<1>6. Ids \subseteq Nat /\ inserting \subseteq Nat
  BY <1>2 DEF TableInv
<1>7. WalkShape(p)
  BY <1>3, <1>4, <1>5, <1>6 DEF WalkShape, NoCursor
<1>8. WalkRows(p)
  <2>1. /\ p.base = Ids /\ p.open = inserting /\ p.bound = z /\ ToSet(p.sent) = {}
        /\ p.cursor = NoCursor /\ p.offset = 0 /\ p.kind = kind /\ p.sort = sort
    BY <1>4, <1>5
  <2> QED BY <1>2, <1>3, <2>1 DEF WalkRows
<1>9. SentUpTo(p)
  BY <1>4, <1>5 DEF SentUpTo, Beyond
<1>10. SentOrBehind(p)
  <2>1. p.offset = 0
    BY <1>4
  <2>2. \A i : Rank(p, i) \in Nat
    BY <1>2, QueryIsFinite
  <2> QED BY <2>1, <2>2 DEF SentOrBehind
<1>11. p.at = "paging" /\ p.at # "done"
  BY <1>4
<1> QED BY <1>1, <1>2, <1>7, <1>8, <1>9, <1>10, <1>11, ReaderMoves

\* Every step of the readers.
LEMMA ReaderStep == ASSUME ReaderInv, [ReaderNext]_readerVars PROVE ReaderInv'
<1>1. CASE UNCHANGED readerVars
  <2>1. PICK p : p = reader
    OBVIOUS
  <2> QED BY <1>1, <2>1, ReaderMoves DEF readerVars, ReaderInv
<1>2. CASE FailPage
  <2>1. PICK p, q : p = reader' /\ q = reader
    OBVIOUS
  <2>2. p = [q EXCEPT !.at = "failed"] /\ UNCHANGED tableVars
    BY <1>2, <2>1 DEF FailPage
  <2>3. WalkShape(q) /\ WalkRows(q) /\ TableInv
    BY <2>1 DEF ReaderInv
  <2>4. /\ WalkShape(p) /\ p.at = "failed" /\ p.sent = q.sent /\ p.base = q.base /\ p.kind = q.kind
        /\ p.sort = q.sort /\ p.bound = q.bound /\ p.open = q.open /\ p.cursor = q.cursor /\ p.offset = q.offset
    BY <2>2, <2>3 DEF WalkShape
  <2>5. WalkRows(p)
    BY <2>3, <2>4 DEF WalkRows
  <2> QED BY <2>1, <2>2, <2>3, <2>4, <2>5, ReaderMoves
<1> QED BY <1>1, <1>2, OpenIdInv, CommitRowInv, RequestInv, FetchPageInv DEF ReaderNext

-----------------------------------------------------------------------------
\* The object of the k-th format the exporter writes is there, if configured.
HasObject(k) == Generated[k] \in Formats => bucket[Generated[k]] > 0

\* An exporter has stored the formats before its next one; a record needs all.
ExporterInv(e) ==
    /\ e \in [at : {"idle", "fetch", "upload", "record"}, count : Nat, next : Nat]
    /\ e.at \in {"upload", "record"} => e.count > 0
    /\ e.at = "upload" => e.next \in 1..2 /\ (e.next = 2 => HasObject(1))
    /\ e.at = "record" => HasObject(1) /\ HasObject(2)

MonthInv ==
    /\ monthEvents \in Nat \ {0}
    /\ bucket \in [{"jsonl", "parquet"} -> Nat]
    /\ tracking \in Seq([count : Nat])
    /\ exporter \in [Exporters -> [at : {"idle", "fetch", "upload", "record"}, count : Nat, next : Nat]]
    /\ \A e \in Exporters : ExporterInv(exporter[e])
    /\ tracking # <<>> => HasObject(1) /\ HasObject(2)

\* The exporter writes two formats.
LEMMA TwoFormats ==
    /\ Generated[1] = "jsonl" /\ Generated[2] = "parquet" /\ Len(Generated) = 2
    /\ ToSet(Generated) = {"jsonl", "parquet"}
<1>1. Generated[1] = "jsonl" /\ Generated[2] = "parquet" /\ Len(Generated) = 2 /\ DOMAIN Generated = {1, 2}
  BY DEF Generated
<1> QED BY <1>1 DEF ToSet

\* No object goes away, one exporter moves.
LEMMA ExporterMoves ==
    ASSUME MonthInv, monthEvents' \in Nat \ {0}, NEW e \in Exporters, NEW x,
           exporter' = [exporter EXCEPT ![e] = x],
           bucket' \in [{"jsonl", "parquet"} -> Nat], tracking' \in Seq([count : Nat]),
           \A f \in {"jsonl", "parquet"} : bucket[f] > 0 => bucket'[f] > 0,
           ExporterInv(x)', tracking' # tracking => (HasObject(1) /\ HasObject(2))'
    PROVE  MonthInv'
<1>1. /\ HasObject(1) => HasObject(1)'
      /\ HasObject(2) => HasObject(2)'
  BY TwoFormats DEF HasObject
<1>2. ASSUME NEW d \in Exporters PROVE ExporterInv(exporter[d])'
  <2>1. CASE d = e
    <3>1. exporter'[d] = x
      BY <2>1 DEF MonthInv
    <3> QED BY <3>1 DEF ExporterInv, HasObject
  <2>2. CASE d # e
    <3>1. exporter'[d] = exporter[d] /\ ExporterInv(exporter[d])
      BY <2>2 DEF MonthInv
    <3> QED BY <1>1, <3>1 DEF ExporterInv
  <2> QED BY <2>1, <2>2
<1>3. exporter' \in [Exporters -> [at : {"idle", "fetch", "upload", "record"}, count : Nat, next : Nat]]
  BY DEF MonthInv, ExporterInv
<1>4. tracking' # <<>> => (HasObject(1) /\ HasObject(2))'
  BY <1>1 DEF MonthInv
<1> QED BY <1>2, <1>3, <1>4 DEF MonthInv

\* Every step of the exporters, and a late event.
LEMMA MonthStep == ASSUME MonthInv, [MonthNext]_monthVars PROVE MonthInv'
<1>0. /\ monthEvents \in Nat \ {0} /\ bucket \in [{"jsonl", "parquet"} -> Nat]
      /\ tracking \in Seq([count : Nat])
  BY DEF MonthInv
<1>1. ASSUME UNCHANGED <<exporter, bucket, tracking>>, monthEvents' \in Nat \ {0} PROVE MonthInv'
  <2>1. (HasObject(1))' <=> HasObject(1)
    BY <1>1 DEF HasObject
  <2>2. (HasObject(2))' <=> HasObject(2)
    BY <1>1 DEF HasObject
  <2>3. ASSUME NEW e \in Exporters PROVE ExporterInv(exporter[e])'
    BY <1>1, <2>1, <2>2 DEF MonthInv, ExporterInv
  <2> QED BY <1>1, <2>1, <2>2, <2>3 DEF MonthInv
<1>2. CASE UNCHANGED monthVars
  BY <1>0, <1>1, <1>2 DEF monthVars
<1>3. CASE LateEvent
  BY <1>0, <1>1, <1>3 DEF LateEvent
<1>4. ASSUME NEW e \in Exporters,
             CheckTracked(e) \/ FetchMonth(e) \/ UploadFormat(e) \/ RecordExport(e) \/ FailExport(e)
      PROVE  MonthInv'
  <2>0. PICK y : y = exporter[e]
    OBVIOUS
  <2>1. y \in [at : {"idle", "fetch", "upload", "record"}, count : Nat, next : Nat] /\ ExporterInv(y)
    BY <2>0 DEF MonthInv, ExporterInv
  <2>2. exporter \in [Exporters -> [at : {"idle", "fetch", "upload", "record"}, count : Nat, next : Nat]]
    BY DEF MonthInv
  <2>3. CASE CheckTracked(e)
    <3>1. PICK x : x = [y EXCEPT !.at = "fetch"]
      OBVIOUS
    <3>2. exporter' = [exporter EXCEPT ![e] = x]
      BY <2>0, <2>2, <2>3, <3>1 DEF CheckTracked
    <3>3. ExporterInv(x)'
      BY <2>1, <3>1 DEF ExporterInv
    <3> QED BY <1>0, <2>3, <3>2, <3>3, ExporterMoves DEF CheckTracked
  <2>4. CASE FetchMonth(e)
    <3>1. PICK x : x = [at |-> "upload", count |-> monthEvents, next |-> 1]
      OBVIOUS
    <3>2. ExporterInv(x)'
      BY <1>0, <3>1 DEF ExporterInv
    <3> QED BY <1>0, <2>4, <3>1, <3>2, ExporterMoves DEF FetchMonth
  <2>5. CASE UploadFormat(e)
    <3>1. PICK x, k, f : /\ k = y.next /\ f = Generated[k]
                         /\ x = [y EXCEPT !.next = k + 1, !.at = IF k = 2 THEN "record" ELSE "upload"]
      OBVIOUS
    <3>2. /\ y.at = "upload" /\ k \in {1, 2} /\ (k = 2 => HasObject(1)) /\ y.count > 0 /\ y.count \in Nat
          /\ bucket' = IF f \in Formats THEN [bucket EXCEPT ![f] = y.count] ELSE bucket
      BY <2>0, <2>1, <2>5, <3>1 DEF UploadFormat, ExporterInv
    <3>3. exporter' = [exporter EXCEPT ![e] = x]
      BY <2>0, <2>2, <2>5, <3>1, TwoFormats DEF UploadFormat
    <3>4. f \in {"jsonl", "parquet"} /\ (f \in Formats => bucket'[f] > 0)
      BY <1>0, <3>1, <3>2, TwoFormats
    <3>5. /\ bucket' \in [{"jsonl", "parquet"} -> Nat]
          /\ \A g \in {"jsonl", "parquet"} : bucket[g] > 0 => bucket'[g] > 0
      BY <1>0, <3>2, <3>4
    <3>6. ExporterInv(x)'
      <4>1. CASE k = 1
        <5>1. /\ x.at = "upload" /\ x.next = 2 /\ x.count = y.count
              /\ x \in [at : {"idle", "fetch", "upload", "record"}, count : Nat, next : Nat]
          <6>1. x = [y EXCEPT !.next = 2, !.at = "upload"]
            BY <3>1, <4>1
          <6> QED BY <2>1, <6>1
        <5>2. HasObject(1)'
          BY <3>1, <3>4, <4>1 DEF HasObject
        <5> QED BY <3>2, <5>1, <5>2 DEF ExporterInv
      <4>2. CASE k = 2
        <5>1. /\ x.at = "record" /\ x.next = 3 /\ x.count = y.count
              /\ x \in [at : {"idle", "fetch", "upload", "record"}, count : Nat, next : Nat]
          <6>1. x = [y EXCEPT !.next = 3, !.at = "record"]
            BY <3>1, <4>2
          <6> QED BY <2>1, <6>1
        <5>2. HasObject(2)'
          BY <3>1, <3>4, <4>2 DEF HasObject
        <5>3. HasObject(1)'
          BY <3>2, <3>5, <4>2, TwoFormats DEF HasObject
        <5> QED BY <3>2, <5>1, <5>2, <5>3 DEF ExporterInv
      <4> QED BY <3>2, <4>1, <4>2
    <3> QED BY <1>0, <2>5, <3>3, <3>5, <3>6, ExporterMoves DEF UploadFormat
  <2>6. CASE RecordExport(e)
    <3>1. y.at = "record" /\ HasObject(1) /\ HasObject(2) /\ y.count \in Nat
      BY <2>0, <2>1, <2>6 DEF RecordExport, RecordStep, ExporterInv
    <3>2. (HasObject(1) /\ HasObject(2))'
      BY <2>6, <3>1 DEF RecordExport, HasObject
    <3>3. ExporterInv(NoMonthExport)'
      BY DEF ExporterInv, NoMonthExport
    <3>4. tracking' \in Seq([count : Nat])
      BY <1>0, <2>0, <2>6, <3>1 DEF RecordExport
    <3> QED BY <1>0, <2>6, <3>2, <3>3, <3>4, ExporterMoves DEF RecordExport
  <2>7. CASE FailExport(e)
    <3>1. ExporterInv(NoMonthExport)'
      BY DEF ExporterInv, NoMonthExport
    <3> QED BY <1>0, <2>7, <3>1, ExporterMoves DEF FailExport
  <2> QED BY <1>4, <2>3, <2>4, <2>5, <2>6, <2>7
<1> QED BY <1>2, <1>3, <1>4 DEF MonthNext

-----------------------------------------------------------------------------
\* What both parts keep.
AuditExportInv == ReaderInv /\ MonthInv

\* The invariant behind the exports: what a walk has sent against the table it
\* began with, what an exporter has stored before it records the month.
THEOREM AuditExportInvariant == AuditExportSpec => []AuditExportInv
<1>1. AuditExportInit => ReaderInv
  <2> SUFFICES ASSUME AuditExportInit PROVE ReaderInv
    OBVIOUS
  <2>1. reader = NoReader /\ auditRows = <<>> /\ inserting = {} /\ lastId = 0 /\ Ids = {}
    BY DEF AuditExportInit, ReaderInit, Ids
  <2>2. <<>> \in Seq(Nat) /\ ToSet(<<>>) = {} /\ TableInv
    BY <2>1 DEF ToSet, TableInv
  <2>3. WalkShape(reader)
    BY <2>1, <2>2 DEF WalkShape, NoReader, NoCursor, Kinds, Sorts
  <2>4. WalkRows(reader)
    BY <2>1, <2>2 DEF WalkRows, NoReader
  <2> QED BY <2>1, <2>2, <2>3, <2>4 DEF ReaderInv, NoReader
<1>2. AuditExportInit => MonthInv
  <2> SUFFICES ASSUME AuditExportInit PROVE MonthInv
    OBVIOUS
  <2>1. /\ monthEvents = 1 /\ tracking = <<>> /\ exporter = [e \in Exporters |-> NoMonthExport]
        /\ bucket = [f \in {"jsonl", "parquet"} |-> 0]
    BY TwoFormats DEF AuditExportInit, MonthInit
  <2>2. ExporterInv(NoMonthExport)
    BY DEF ExporterInv, NoMonthExport
  <2>3. NoMonthExport \in [at : {"idle", "fetch", "upload", "record"}, count : Nat, next : Nat]
    BY DEF NoMonthExport
  <2>4. \A e \in Exporters : ExporterInv(exporter[e])
    BY <2>1, <2>2
  <2>5. tracking \in Seq([count : Nat]) /\ bucket \in [{"jsonl", "parquet"} -> Nat]
    BY <2>1
  <2> QED BY <2>1, <2>3, <2>4, <2>5 DEF MonthInv
<1>3. AuditExportInv /\ [AuditExportNext]_auditExportVars => AuditExportInv'
  <2> SUFFICES ASSUME AuditExportInv, [AuditExportNext]_auditExportVars PROVE AuditExportInv'
    OBVIOUS
  <2>1. [ReaderNext]_readerVars /\ [MonthNext]_monthVars
    BY DEF AuditExportNext, auditExportVars
  <2> QED BY <2>1, ReaderStep, MonthStep DEF AuditExportInv
<1> QED BY <1>1, <1>2, <1>3, PTL DEF AuditExportSpec, AuditExportInv

\* A finished walk has sent every row it began with, a keyset walk each once,
\* for any table, page size and order in which inserts commit meanwhile, and a
\* snapshot beyond them only inserts that were open when it began; a month on
\* record has its objects for any overlapping exporters.
THEOREM ExportsAreComplete == AuditExportSpec => []ExportsComplete
<1>1. AuditExportInv => KeysetSendsOnce /\ OffsetMissesNothing
  BY DEF AuditExportInv, ReaderInv, SentAll, KeysetSendsOnce, OffsetMissesNothing
<1>3. AuditExportInv => TrackedMeansUploaded
  BY TwoFormats DEF AuditExportInv, MonthInv, HasObject, TrackedMeansUploaded
<1>4. AuditExportInv => ExportsComplete
  BY <1>1, <1>3 DEF ExportsComplete
<1> QED BY <1>4, AuditExportInvariant, PTL

-----------------------------------------------------------------------------
(***************************************************************************)
(* AssetDiscovery, for any logs, any table of finitely many hosts, and any *)
(* number of entries, enforcements and price services.                     *)
(***************************************************************************)

\* u is the function by which GroupBy goes through the first n entries.
Groups(u, key, log, n) ==
    u = [i \in 0..n |->
            IF i = 0 THEN << >> ELSE AddEntry(u[i - 1], key[log[i].host], log[i])]

\* There is such a function for every length.
LEMMA GroupsExist == ASSUME NEW key, NEW log PROVE \A n \in Nat : \E u : Groups(u, key, log, n)
<1> DEFINE At(f, i) == IF i = 0 THEN << >> ELSE AddEntry(f[i - 1], key[log[i].host], log[i])
           G == {n \in Nat : \E u : Groups(u, key, log, n)}
<1>1. 0 \in G
  <2>1. PICK u : u = [i \in 0..0 |-> << >>]
    OBVIOUS
  <2>2. Groups(u, key, log, 0)
    BY <2>1 DEF Groups
  <2> QED BY <2>2
<1>2. ASSUME NEW n \in G \cap Nat PROVE n + 1 \in G
  <2>1. PICK f : Groups(f, key, log, n)
    BY <1>2
  <2>2. PICK e : e = AddEntry(f[n], key[log[n + 1].host], log[n + 1])
    OBVIOUS
  <2>3. PICK u : u = [i \in 0..(n + 1) |-> IF i = n + 1 THEN e ELSE f[i]]
    OBVIOUS
  <2>4. (\A i \in 0..n : u[i] = f[i]) /\ u[n + 1] = e
    <3>1. n + 1 \in 0..(n + 1) /\ \A i \in 0..n : i \in 0..(n + 1) /\ i # n + 1
      OBVIOUS
    <3> QED BY <2>3, <3>1
  <2>5. \A i \in 0..n : f[i] = At(f, i)
    BY <2>1 DEF Groups
  <2>6. ASSUME NEW i \in 0..(n + 1) PROVE u[i] = At(u, i)
    <3>1. CASE i \in 0..n
      <4>1. i # 0 => i - 1 \in 0..n
        BY <3>1
      <4> QED BY <2>4, <2>5, <3>1, <4>1
    <3>2. CASE i = n + 1
      <4>1. i # 0 /\ i - 1 = n /\ n \in 0..n
        BY <3>2
      <4>2. At(u, i) = AddEntry(u[n], key[log[n + 1].host], log[n + 1])
        BY <3>2, <4>1
      <4> QED BY <2>2, <2>4, <3>2, <4>1, <4>2
    <3> QED BY <3>1, <3>2
  <2>7. u = [i \in 0..(n + 1) |-> u[i]]
    BY <2>3
  <2>8. Groups(u, key, log, n + 1)
    BY <2>6, <2>7 DEF Groups
  <2> QED BY <2>8
<1>3. Nat \subseteq G
  <2> HIDE DEF G
  <2> QED BY <1>1, <1>2, SetInduction
<1> QED BY <1>3

\* GroupBy is the last value of that function.
LEMMA GroupByIsLast ==
    ASSUME NEW key, NEW log, Len(log) \in Nat
    PROVE  \E u : Groups(u, key, log, Len(log)) /\ GroupBy(key, log) = u[Len(log)]
<1> DEFINE g == CHOOSE u : Groups(u, key, log, Len(log))
<1>1. \E u : Groups(u, key, log, Len(log))
  BY GroupsExist
<1>2. Groups(g, key, log, Len(log))
  BY <1>1, Zenon
<1>3. GroupBy(key, log) = g[Len(log)]
  BY Zenon DEF GroupBy, Groups
<1> QED BY <1>2, <1>3

\* The groups of no entry, and of a log with one more.
LEMMA GroupByAppend ==
    /\ \A key : GroupBy(key, << >>) = << >>
    /\ \A key : \A q \in Seq(LogEntries), e \in LogEntries :
          GroupBy(key, Append(q, e)) = AddEntry(GroupBy(key, q), key[e.host], e)
<1>1. ASSUME NEW key PROVE GroupBy(key, << >>) = << >>
  <2>1. PICK n : n = Len(<< >>) /\ n = 0
    OBVIOUS
  <2>2. PICK u : Groups(u, key, << >>, n) /\ GroupBy(key, << >>) = u[n]
    BY <2>1, GroupByIsLast
  <2> QED BY <2>1, <2>2 DEF Groups
<1>2. ASSUME NEW key, NEW q \in Seq(LogEntries), NEW e \in LogEntries
      PROVE  GroupBy(key, Append(q, e)) = AddEntry(GroupBy(key, q), key[e.host], e)
  <2>1. PICK r, n, m : r = Append(q, e) /\ n = Len(q) /\ m = n + 1
    OBVIOUS
  <2>2. /\ n \in Nat /\ m \in Nat /\ m \in 0..m /\ m # 0 /\ m - 1 = n /\ n \in 0..n
        /\ Len(r) = m /\ r[m] = e /\ \A i \in 1..n : q[i] = r[i]
    BY <2>1
  <2>3. PICK f : Groups(f, key, q, n) /\ GroupBy(key, q) = f[n]
    BY <2>1, <2>2, GroupByIsLast
  <2>4. PICK g : Groups(g, key, r, m) /\ GroupBy(key, r) = g[m]
    BY <2>2, GroupByIsLast
  <2>5. \A i \in 0..n : f[i] = IF i = 0 THEN << >> ELSE AddEntry(f[i - 1], key[q[i].host], q[i])
    BY <2>3 DEF Groups
  <2>6. \A i \in 0..m : g[i] = IF i = 0 THEN << >> ELSE AddEntry(g[i - 1], key[r[i].host], r[i])
    BY <2>4 DEF Groups
  <2> DEFINE S == {i \in 0..n : f[i] = g[i]}
  <2>7. \A i \in 0..n : i \in S
    <3>1. 0 \in S
      <4>1. 0 \in 0..n /\ 0 \in 0..m
        BY <2>2
      <4> QED BY <2>5, <2>6, <4>1
    <3>2. ASSUME NEW i \in 1..n, i - 1 \in S PROVE i \in S
      <4>1. i \in 0..n /\ i \in 0..m /\ i # 0 /\ f[i - 1] = g[i - 1] /\ q[i] = r[i]
        BY <2>1, <2>2, <3>2
      <4>2. f[i] = AddEntry(f[i - 1], key[q[i].host], q[i])
        BY <2>5, <4>1
      <4>3. g[i] = AddEntry(g[i - 1], key[r[i].host], r[i])
        BY <2>6, <4>1
      <4> QED BY <4>1, <4>2, <4>3
    <3> HIDE DEF S
    <3> QED BY <2>2, <3>1, <3>2, AlongList
  <2>8. f[n] = g[n]
    BY <2>2, <2>7
  <2>9. g[m] = AddEntry(g[n], key[e.host], e)
    BY <2>2, <2>6
  <2> QED BY <2>1, <2>3, <2>4, <2>8, <2>9
<1> QED BY <1>1, <1>2

\* What a group is made of.
IsGroups(G) ==
    /\ G = [k \in DOMAIN G |-> G[k]]
    /\ \A k \in DOMAIN G :
          /\ G[k].requests \in Nat /\ G[k].tokens \in Nat
          /\ G[k].first \in Nat /\ G[k].last \in Nat

\* What an entry says.
LEMMA EntryFacts ==
    \A e \in LogEntries : e.host \in Hosts /\ e.time \in Nat /\ Tokens(e) \in Nat
<1> TAKE e \in LogEntries
<1>1. e.host \in Hosts /\ e.time \in Nat /\ e.bytes \in Nat
  BY DiscoveryAssumption DEF Hosts
<1>2. e.bytes \div 4 \in Nat
  BY <1>1
<1> QED BY <1>1, <1>2 DEF Tokens

\* The keys of the groups with one more entry.
LEMMA GroupKeys ==
    ASSUME NEW G, NEW k, NEW e PROVE DOMAIN AddEntry(G, k, e) = DOMAIN G \cup {k}
BY DEF AddEntry

\* An entry leaves the other groups alone.
LEMMA OtherGroups ==
    ASSUME NEW G, NEW k, NEW e
    PROVE  \A x \in DOMAIN G : x # k => AddEntry(G, k, e)[x] = G[x]
BY DEF AddEntry

\* Its own is opened by it or grows.
LEMMA OwnGroup ==
    ASSUME NEW G, NEW k, NEW e
    PROVE  /\ k \in DOMAIN G => AddEntry(G, k, e)[k] = AddToGroup(G[k], e)
           /\ k \notin DOMAIN G => AddEntry(G, k, e)[k] = AddToGroup(NewGroup(e), e)
BY DEF AddEntry

\* A group stays a group.
LEMMA GroupsType ==
    ASSUME NEW G, IsGroups(G), NEW k, NEW e \in LogEntries PROVE IsGroups(AddEntry(G, k, e))
<1>1. PICK H : H = AddEntry(G, k, e)
  OBVIOUS
<1>2. PICK g : g = IF k \in DOMAIN G THEN G[k] ELSE NewGroup(e)
  OBVIOUS
<1>3. g.requests \in Nat /\ g.tokens \in Nat /\ g.first \in Nat /\ g.last \in Nat
  BY <1>2, EntryFacts DEF NewGroup, IsGroups
<1>4. PICK a : a = AddToGroup(g, e)
  OBVIOUS
<1>5. a.requests \in Nat /\ a.tokens \in Nat /\ a.first \in Nat /\ a.last \in Nat
  BY <1>3, <1>4, EntryFacts DEF AddToGroup, Earliest, Latest
<1>6. H = [x \in DOMAIN G \cup {k} |-> IF x # k THEN G[x] ELSE a]
  BY <1>1, <1>2, <1>4 DEF AddEntry
<1> QED BY <1>1, <1>5, <1>6 DEF IsGroups

\* A summary of two logs with one more entry in the second.
LEMMA SummaryGrows ==
    ASSUME NEW e \in LogEntries, NEW d, NEW x,
           d.requests \in Nat, d.tokens \in Nat, d.first \in Nat, d.last \in Nat,
           x.requests \in Nat, x.tokens \in Nat, x.first \in Nat, x.last \in Nat
    PROVE  /\ MergeSummaries(d, AddToGroup(x, e)) = AddToGroup(MergeSummaries(d, x), e)
           /\ MergeSummaries(d, AddToGroup(NewGroup(e), e)) = AddToGroup(d, e)
<1>1. PICK t, n : t = e.time /\ n = Tokens(e) /\ t \in Nat /\ n \in Nat
  BY EntryFacts
<1>2. PICK a : a = AddToGroup(x, e)
  OBVIOUS
<1>3. /\ a.sources = x.sources \cup {e.source} /\ a.users = x.users \cup {e.ip}
      /\ a.requests = x.requests + 1 /\ a.tokens = x.tokens + n
      /\ a.first = Earliest(x.first, t) /\ a.last = Latest(x.last, t)
  BY <1>1, <1>2 DEF AddToGroup
<1>4. PICK m : m = MergeSummaries(d, x)
  OBVIOUS
<1>5. /\ m.sources = d.sources \cup x.sources /\ m.users = d.users \cup x.users
      /\ m.requests = d.requests + x.requests /\ m.tokens = d.tokens + x.tokens
      /\ m.first = Earliest(d.first, x.first) /\ m.last = Latest(d.last, x.last)
  BY <1>4 DEF MergeSummaries
<1>6. MergeSummaries(d, a) = AddToGroup(m, e)
  <2>1. d.sources \cup a.sources = m.sources \cup {e.source} /\ d.users \cup a.users = m.users \cup {e.ip}
    BY <1>3, <1>5
  <2>2. d.requests + a.requests = m.requests + 1 /\ d.tokens + a.tokens = m.tokens + n
    BY <1>1, <1>3, <1>5
  <2>3. Earliest(d.first, a.first) = Earliest(m.first, t) /\ Latest(d.last, a.last) = Latest(m.last, t)
    BY <1>1, <1>3, <1>5 DEF Earliest, Latest
  <2> QED BY <1>1, <2>1, <2>2, <2>3 DEF MergeSummaries, AddToGroup
<1>7. PICK b : b = AddToGroup(NewGroup(e), e)
  OBVIOUS
<1>8. /\ b.sources = {e.source} /\ b.users = {e.ip} /\ b.requests = 1 /\ b.tokens = n
      /\ b.first = t /\ b.last = t
  BY <1>1, <1>7 DEF AddToGroup, NewGroup, Earliest, Latest
<1>9. MergeSummaries(d, b) = AddToGroup(d, e)
  BY <1>1, <1>8 DEF MergeSummaries, AddToGroup
<1> QED BY <1>2, <1>4, <1>6, <1>7, <1>9

\* merge_summaries with one more entry in the second log.
LEMMA CombinedGrows ==
    ASSUME NEW D, NEW X, IsGroups(D), IsGroups(X), NEW k, NEW e \in LogEntries
    PROVE  Combined(D, AddEntry(X, k, e)) = AddEntry(Combined(D, X), k, e)
<1>1. PICK Y : Y = AddEntry(X, k, e)
  OBVIOUS
<1>2. /\ DOMAIN Y = DOMAIN X \cup {k}
      /\ \A x \in DOMAIN X : x # k => Y[x] = X[x]
      /\ k \in DOMAIN X => Y[k] = AddToGroup(X[k], e)
      /\ k \notin DOMAIN X => Y[k] = AddToGroup(NewGroup(e), e)
  <2>1. DOMAIN AddEntry(X, k, e) = DOMAIN X \cup {k}
    BY GroupKeys
  <2>2. \A x \in DOMAIN X : x # k => AddEntry(X, k, e)[x] = X[x]
    BY OtherGroups
  <2>3. /\ k \in DOMAIN X => AddEntry(X, k, e)[k] = AddToGroup(X[k], e)
        /\ k \notin DOMAIN X => AddEntry(X, k, e)[k] = AddToGroup(NewGroup(e), e)
    BY OwnGroup
  <2> QED BY <1>1, <2>1, <2>2, <2>3
<1>3. PICK C : C = Combined(D, X)
  OBVIOUS
<1>4. /\ DOMAIN C = DOMAIN D \cup DOMAIN X
      /\ \A p \in DOMAIN C : C[p] = IF p \notin DOMAIN X THEN D[p]
                                    ELSE IF p \notin DOMAIN D THEN X[p]
                                    ELSE MergeSummaries(D[p], X[p])
  BY <1>3 DEF Combined
<1>5. PICK P : P = DOMAIN D \cup DOMAIN Y
  OBVIOUS
<1>6. P = DOMAIN C \cup {k}
  BY <1>2, <1>4, <1>5
<1> DEFINE Left(p) == IF p \notin DOMAIN Y THEN D[p]
                      ELSE IF p \notin DOMAIN D THEN Y[p] ELSE MergeSummaries(D[p], Y[p])
           Right(p) == IF p # k THEN C[p]
                       ELSE AddToGroup(IF k \in DOMAIN C THEN C[k] ELSE NewGroup(e), e)
<1>7. ASSUME NEW p \in P PROVE Left(p) = Right(p)
  <2>1. CASE p # k
    BY <1>2, <1>4, <1>6, <2>1
  <2>2. CASE p = k
    <3>1. k \in DOMAIN Y
      BY <1>2
    <3>2. CASE k \in DOMAIN D /\ k \in DOMAIN X
      <4>1. MergeSummaries(D[k], AddToGroup(X[k], e)) = AddToGroup(MergeSummaries(D[k], X[k]), e)
        BY <3>2, SummaryGrows DEF IsGroups
      <4>2. Y[k] = AddToGroup(X[k], e) /\ C[k] = MergeSummaries(D[k], X[k]) /\ k \in DOMAIN C
        BY <1>2, <1>4, <3>2
      <4> QED BY <2>2, <3>1, <3>2, <4>1, <4>2
    <3>3. CASE k \in DOMAIN D /\ k \notin DOMAIN X
      <4>1. MergeSummaries(D[k], AddToGroup(NewGroup(e), e)) = AddToGroup(D[k], e)
        BY <3>3, SummaryGrows DEF IsGroups
      <4>2. Y[k] = AddToGroup(NewGroup(e), e) /\ C[k] = D[k] /\ k \in DOMAIN C
        BY <1>2, <1>4, <3>3
      <4> QED BY <2>2, <3>1, <3>3, <4>1, <4>2
    <3>4. CASE k \notin DOMAIN D /\ k \in DOMAIN X
      <4>1. Y[k] = AddToGroup(X[k], e) /\ C[k] = X[k] /\ k \in DOMAIN C
        BY <1>2, <1>4, <3>4
      <4> QED BY <2>2, <3>1, <3>4, <4>1
    <3>5. CASE k \notin DOMAIN D /\ k \notin DOMAIN X
      <4>1. Y[k] = AddToGroup(NewGroup(e), e) /\ k \notin DOMAIN C
        BY <1>2, <1>4, <3>5
      <4> QED BY <2>2, <3>1, <3>5, <4>1
    <3> QED BY <3>2, <3>3, <3>4, <3>5
  <2> QED BY <2>1, <2>2
<1>8. Combined(D, Y) = [p \in P |-> Left(p)]
  BY <1>5 DEF Combined
<1>9. AddEntry(C, k, e) = [p \in P |-> Right(p)]
  BY <1>6 DEF AddEntry
<1>10. [p \in P |-> Left(p)] = [p \in P |-> Right(p)]
  <2> HIDE DEF Left, Right
  <2> QED BY <1>7
<1> QED BY <1>1, <1>3, <1>8, <1>9, <1>10

\* The groups of any log are groups.
LEMMA GroupByType ==
    ASSUME NEW key PROVE \A q \in Seq(LogEntries) : IsGroups(GroupBy(key, q))
<1> DEFINE G == {n \in Nat : \A v \in Seq(LogEntries) : Len(v) = n => IsGroups(GroupBy(key, v))}
<1>1. 0 \in G
  <2> SUFFICES ASSUME NEW v \in Seq(LogEntries), Len(v) = 0 PROVE IsGroups(GroupBy(key, v))
    OBVIOUS
  <2>1. v = << >>
    OBVIOUS
  <2>2. PICK g : g = GroupBy(key, v) /\ g = << >>
    BY <2>1, GroupByAppend
  <2>3. DOMAIN g = {} /\ g = [k \in {} |-> g[k]]
    BY <2>2
  <2> QED BY <2>2, <2>3 DEF IsGroups
<1>2. ASSUME NEW n \in G \cap Nat PROVE n + 1 \in G
  <2> SUFFICES ASSUME NEW v \in Seq(LogEntries), Len(v) = n + 1 PROVE IsGroups(GroupBy(key, v))
    OBVIOUS
  <2>1. PICK w \in Seq(LogEntries), e \in LogEntries :
          Len(w) = n /\ v = Append(w, e) /\ \A i \in 1..n : w[i] = v[i]
    BY LastApart, Zenon
  <2>2. IsGroups(GroupBy(key, w))
    BY <1>2, <2>1
  <2>3. GroupBy(key, v) = AddEntry(GroupBy(key, w), key[e.host], e)
    BY <2>1, GroupByAppend
  <2> QED BY <2>2, <2>3, GroupsType
<1>3. Nat \subseteq G
  <2> HIDE DEF G
  <2> QED BY <1>1, <1>2, SetInduction
<1>4. \A q \in Seq(LogEntries) : Len(q) \in G
  BY <1>3
<1> QED BY <1>4

\* Summing what was grouped of two logs is grouping both.
LEMMA CombinedIsOne ==
    ASSUME NEW key, NEW q \in Seq(LogEntries)
    PROVE  \A r \in Seq(LogEntries) : Combined(GroupBy(key, q), GroupBy(key, r)) = GroupBy(key, q \o r)
<1> DEFINE D == GroupBy(key, q)
           One(v) == Combined(D, GroupBy(key, v)) = GroupBy(key, q \o v)
           G == {n \in Nat : \A v \in Seq(LogEntries) : Len(v) = n => One(v)}
<1>d. IsGroups(D)
  BY GroupByType
<1>1. 0 \in G
  <2> SUFFICES ASSUME NEW v \in Seq(LogEntries), Len(v) = 0 PROVE One(v)
    OBVIOUS
  <2>1. v = << >> /\ q \o v = q
    OBVIOUS
  <2>2. PICK g : g = GroupBy(key, v) /\ g = << >>
    BY <2>1, GroupByAppend
  <2>3. DOMAIN g = {}
    BY <2>2
  <2>4. Combined(D, g) = [p \in DOMAIN D |-> D[p]]
    <3> HIDE DEF D
    <3> QED BY <2>3 DEF Combined
  <2> QED BY <1>d, <2>1, <2>2, <2>4 DEF IsGroups
<1> HIDE DEF D
<1>2. ASSUME NEW n \in G \cap Nat PROVE n + 1 \in G
  <2> SUFFICES ASSUME NEW v \in Seq(LogEntries), Len(v) = n + 1 PROVE One(v)
    OBVIOUS
  <2> HIDE DEF One
  <2>1. PICK w \in Seq(LogEntries), e \in LogEntries :
          Len(w) = n /\ v = Append(w, e) /\ \A i \in 1..n : w[i] = v[i]
    BY LastApart, Zenon
  <2>2. One(w)
    BY <1>2, <2>1
  <2>3. GroupBy(key, v) = AddEntry(GroupBy(key, w), key[e.host], e)
    BY <2>1, GroupByAppend
  <2>4. IsGroups(GroupBy(key, w))
    BY GroupByType
  <2>5. Combined(D, GroupBy(key, v)) = AddEntry(GroupBy(key, q \o w), key[e.host], e)
    BY <1>d, <2>2, <2>3, <2>4, CombinedGrows DEF One
  <2>6. q \o v = Append(q \o w, e) /\ q \o w \in Seq(LogEntries)
    BY <2>1
  <2>7. GroupBy(key, q \o v) = AddEntry(GroupBy(key, q \o w), key[e.host], e)
    BY <2>6, GroupByAppend
  <2> QED BY <2>5, <2>7 DEF One
<1>3. Nat \subseteq G
  <2> HIDE DEF G
  <2> QED BY <1>1, <1>2, SetInduction
<1>4. \A r \in Seq(LogEntries) : Len(r) \in G
  BY <1>3
<1> QED BY <1>4 DEF D

\* The hosts of G, groups by host, that are of the provider p.
HostsOf(G, p) == {h \in DOMAIN G : ProviderOf[h] = p}

\* What a group counts, 0 where there is none.
Counted(U, p, n) == IF p \in DOMAIN U THEN n ELSE 0

\* Groups G by host and U by provider say the same of a provider.
SayOf(G, U, p) ==
    /\ (p \in DOMAIN U) <=> (HostsOf(G, p) # {})
    /\ Counted(U, p, U[p].requests) = SumFunction([h \in HostsOf(G, p) |-> G[h].requests])
    /\ Counted(U, p, U[p].tokens) = SumFunction([h \in HostsOf(G, p) |-> G[h].tokens])
    /\ p \in DOMAIN U =>
          /\ \A x : x \in U[p].users <=> \E h \in HostsOf(G, p) : x \in G[h].users
          /\ \E h \in HostsOf(G, p) : U[p].first = G[h].first
          /\ \A h \in HostsOf(G, p) : U[p].first <= G[h].first
          /\ \E h \in HostsOf(G, p) : U[p].last = G[h].last
          /\ \A h \in HostsOf(G, p) : U[p].last >= G[h].last

\* An entry of another provider changes nothing.
LEMMA OthersStay ==
    ASSUME NEW G, NEW U, IsGroups(G), IsGroups(U), NEW e \in LogEntries, NEW p,
           p # ProviderOf[e.host], SayOf(G, U, p),
           NEW H, H = G \/ H = AddEntry(G, e.host, e),
           NEW V, V = AddEntry(U, ProviderOf[e.host], e)
    PROVE  SayOf(H, V, p)
<1>1. PICK q : q = ProviderOf[e.host]
  OBVIOUS
<1>2. DOMAIN V = DOMAIN U \cup {q} /\ \A x \in DOMAIN U : x # q => V[x] = U[x]
  <2>1. V = AddEntry(U, q, e)
    BY <1>1
  <2>2. DOMAIN AddEntry(U, q, e) = DOMAIN U \cup {q}
    BY GroupKeys
  <2>3. \A x \in DOMAIN U : x # q => AddEntry(U, q, e)[x] = U[x]
    BY OtherGroups
  <2> QED BY <2>1, <2>2, <2>3
<1>3. p \in DOMAIN V <=> p \in DOMAIN U
  BY <1>1, <1>2
<1>4. p \in DOMAIN U => V[p] = U[p]
  BY <1>1, <1>2
<1>5. HostsOf(H, p) = HostsOf(G, p) /\ \A h \in HostsOf(G, p) : H[h] = G[h]
  <2>1. CASE H = G
    BY <2>1
  <2>2. CASE H = AddEntry(G, e.host, e)
    <3>1. DOMAIN AddEntry(G, e.host, e) = DOMAIN G \cup {e.host}
      BY GroupKeys
    <3>2. \A x \in DOMAIN G : x # e.host => AddEntry(G, e.host, e)[x] = G[x]
      BY OtherGroups
    <3>3. DOMAIN H = DOMAIN G \cup {e.host}
      BY <2>2, <3>1
    <3>4. \A x \in DOMAIN G : x # e.host => H[x] = G[x]
      BY <2>2, <3>2
    <3> QED BY <3>3, <3>4 DEF HostsOf
  <2> QED BY <2>1, <2>2
<1>6. /\ [h \in HostsOf(H, p) |-> H[h].requests] = [h \in HostsOf(G, p) |-> G[h].requests]
      /\ [h \in HostsOf(H, p) |-> H[h].tokens] = [h \in HostsOf(G, p) |-> G[h].tokens]
  BY <1>5
<1>7. \A n, m : (p \in DOMAIN U => n = m) => Counted(V, p, n) = Counted(U, p, m)
  BY <1>3 DEF Counted
<1>8. /\ Counted(V, p, V[p].requests) = Counted(U, p, U[p].requests)
      /\ Counted(V, p, V[p].tokens) = Counted(U, p, U[p].tokens)
  BY <1>4, <1>7
<1>9. (p \in DOMAIN V) <=> (HostsOf(H, p) # {})
  BY <1>3, <1>5 DEF SayOf
<1>10. /\ Counted(V, p, V[p].requests) = SumFunction([h \in HostsOf(H, p) |-> H[h].requests])
       /\ Counted(V, p, V[p].tokens) = SumFunction([h \in HostsOf(H, p) |-> H[h].tokens])
  BY <1>6, <1>8 DEF SayOf
<1>11. ASSUME p \in DOMAIN V
       PROVE  /\ \A x : x \in V[p].users <=> \E h \in HostsOf(H, p) : x \in H[h].users
              /\ \E h \in HostsOf(H, p) : V[p].first = H[h].first
              /\ \A h \in HostsOf(H, p) : V[p].first <= H[h].first
              /\ \E h \in HostsOf(H, p) : V[p].last = H[h].last
              /\ \A h \in HostsOf(H, p) : V[p].last >= H[h].last
  BY <1>3, <1>4, <1>5, <1>11 DEF SayOf
<1> QED BY <1>9, <1>10, <1>11 DEF SayOf

\* An entry of the provider p.
LEMMA OwnGrow ==
    ASSUME NEW G, NEW U, IsGroups(G), IsGroups(U), DOMAIN G \subseteq Hosts,
           NEW e \in LogEntries, NEW p, p = ProviderOf[e.host], SayOf(G, U, p),
           NEW H, H = AddEntry(G, e.host, e), NEW V, V = AddEntry(U, p, e)
    PROVE  SayOf(H, V, p)
<1>n. PICK n \in Nat : n = Tokens(e)
  BY EntryFacts
<1>1. PICK k, t : k = e.host /\ t = e.time
  OBVIOUS
<1>2. k \in Hosts /\ t \in Nat
  BY <1>1, EntryFacts
<1>3. PICK S, T : S = HostsOf(G, p) /\ T = HostsOf(H, p)
  OBVIOUS
<1>4. PICK c, d : /\ c = IF k \in DOMAIN G THEN G[k] ELSE NewGroup(e)
                  /\ d = IF p \in DOMAIN U THEN U[p] ELSE NewGroup(e)
  OBVIOUS
<1>h. /\ DOMAIN H = DOMAIN G \cup {k}
      /\ \A x \in DOMAIN G : x # k => H[x] = G[x]
      /\ H[k] = AddToGroup(c, e)
  <2>1. H = AddEntry(G, k, e)
    BY <1>1
  <2>2. DOMAIN AddEntry(G, k, e) = DOMAIN G \cup {k}
    BY GroupKeys
  <2>3. \A x \in DOMAIN G : x # k => AddEntry(G, k, e)[x] = G[x]
    BY OtherGroups
  <2>4. /\ k \in DOMAIN G => AddEntry(G, k, e)[k] = AddToGroup(G[k], e)
        /\ k \notin DOMAIN G => AddEntry(G, k, e)[k] = AddToGroup(NewGroup(e), e)
    BY OwnGroup
  <2> QED BY <1>4, <2>1, <2>2, <2>3, <2>4
<1>v. p \in DOMAIN V /\ V[p] = AddToGroup(d, e)
  <2>1. DOMAIN AddEntry(U, p, e) = DOMAIN U \cup {p}
    BY GroupKeys
  <2>2. /\ p \in DOMAIN U => AddEntry(U, p, e)[p] = AddToGroup(U[p], e)
        /\ p \notin DOMAIN U => AddEntry(U, p, e)[p] = AddToGroup(NewGroup(e), e)
    BY OwnGroup
  <2> QED BY <1>4, <2>1, <2>2
<1>s. T = S \cup {k} /\ k \in T /\ (k \in S <=> k \in DOMAIN G) /\ IsFiniteSet(S)
  <2>1. T = S \cup {k} /\ (k \in S <=> k \in DOMAIN G)
    BY <1>1, <1>3, <1>h DEF HostsOf
  <2>2. S \subseteq Hosts
    BY <1>3 DEF HostsOf
  <2>3. IsFiniteSet(Hosts)
    BY DiscoveryAssumption DEF Hosts
  <2> QED BY <2>1, <2>2, <2>3, FS_Subset
<1>o. \A x \in S : x \in DOMAIN G /\ (x # k => H[x] = G[x])
  BY <1>3, <1>h DEF HostsOf
<1>g. /\ \A x \in S : /\ G[x].requests \in Nat /\ G[x].tokens \in Nat
                       /\ G[x].first \in Nat /\ G[x].last \in Nat
      /\ c.first \in Nat /\ c.last \in Nat /\ d.first \in Nat /\ d.last \in Nat
      /\ c.requests \in Nat /\ c.tokens \in Nat /\ d.requests \in Nat /\ d.tokens \in Nat
  BY <1>1, <1>2, <1>4, <1>o DEF IsGroups, NewGroup
<1>r. /\ H[k].requests = (IF k \in S THEN G[k].requests ELSE 0) + 1
      /\ H[k].tokens = (IF k \in S THEN G[k].tokens ELSE 0) + n
      /\ V[p].requests = Counted(U, p, U[p].requests) + 1
      /\ V[p].tokens = Counted(U, p, U[p].tokens) + n
  BY <1>n, <1>1, <1>4, <1>h, <1>v, <1>s DEF AddToGroup, NewGroup, Counted
<1>t. /\ H[k].first = Earliest(c.first, t) /\ H[k].last = Latest(c.last, t)
      /\ V[p].first = Earliest(d.first, t) /\ V[p].last = Latest(d.last, t)
      /\ H[k].users = c.users \cup {e.ip} /\ V[p].users = d.users \cup {e.ip}
  BY <1>1, <1>h, <1>v DEF AddToGroup
<1>5. (p \in DOMAIN V) <=> (T # {})
  BY <1>v, <1>s
<1>6. Counted(V, p, V[p].requests) = SumFunction([h \in T |-> H[h].requests])
  <2>1. PICK f : f = [h \in S |-> G[h].requests]
    OBVIOUS
  <2>2. PICK g : g = [h \in T |-> H[h].requests]
    OBVIOUS
  <2>3. DOMAIN f = S /\ \A x \in DOMAIN f : f[x] \in Nat
    BY <1>g, <2>1
  <2>4. /\ DOMAIN g = DOMAIN f \cup {k}
        /\ \A x \in DOMAIN f \ {k} : g[x] = f[x]
        /\ g[k] = (IF k \in DOMAIN f THEN f[k] ELSE 0) + 1
    BY <1>s, <1>o, <1>r, <2>1, <2>2, <2>3
  <2>5. IsFiniteSet(DOMAIN f)
    BY <1>s, <2>3
  <2>6. SumFunction(g) = SumFunction(f) + 1
    BY <2>3, <2>4, <2>5, SumGrown
  <2>7. SumFunction(f) = Counted(U, p, U[p].requests)
    BY <1>3, <2>1 DEF SayOf
  <2> QED BY <1>v, <1>r, <2>2, <2>6, <2>7 DEF Counted
<1>7. Counted(V, p, V[p].tokens) = SumFunction([h \in T |-> H[h].tokens])
  <2>1. PICK f : f = [h \in S |-> G[h].tokens]
    OBVIOUS
  <2>2. PICK g : g = [h \in T |-> H[h].tokens]
    OBVIOUS
  <2>3. DOMAIN f = S /\ \A x \in DOMAIN f : f[x] \in Nat
    BY <1>g, <2>1
  <2>4. /\ DOMAIN g = DOMAIN f \cup {k}
        /\ \A x \in DOMAIN f \ {k} : g[x] = f[x]
        /\ g[k] = (IF k \in DOMAIN f THEN f[k] ELSE 0) + n
    BY <1>s, <1>o, <1>r, <2>1, <2>2, <2>3
  <2>5. IsFiniteSet(DOMAIN f)
    BY <1>s, <2>3
  <2>6. SumFunction(g) = SumFunction(f) + n
    BY <2>3, <2>4, <2>5, SumGrown
  <2>7. SumFunction(f) = Counted(U, p, U[p].tokens)
    BY <1>3, <2>1 DEF SayOf
  <2> QED BY <1>v, <1>r, <2>2, <2>6, <2>7 DEF Counted
<1>8. CASE p \in DOMAIN U
  <2>1. /\ \A x : x \in d.users <=> \E h \in S : x \in G[h].users
        /\ \E h \in S : d.first = G[h].first
        /\ \A h \in S : d.first <= G[h].first
        /\ \E h \in S : d.last = G[h].last
        /\ \A h \in S : d.last >= G[h].last
    BY <1>3, <1>4, <1>8 DEF SayOf
  <2>2. \A x : x \in V[p].users <=> \E h \in T : x \in H[h].users
    <3>1. c.users = IF k \in S THEN G[k].users ELSE {}
      BY <1>4, <1>s DEF NewGroup
    <3>2. ASSUME NEW x, x \in V[p].users PROVE \E h \in T : x \in H[h].users
      <4>1. CASE x \in d.users
        <5>1. PICK h \in S : x \in G[h].users
          BY <2>1, <4>1
        <5>2. x \in H[h].users
          BY <1>o, <1>t, <3>1, <5>1
        <5> QED BY <1>s, <5>2
      <4>2. CASE x = e.ip
        BY <1>s, <1>t, <4>2
      <4> QED BY <1>t, <3>2, <4>1, <4>2
    <3>3. ASSUME NEW x, NEW h \in T, x \in H[h].users PROVE x \in V[p].users
      <4>1. CASE h = k
        <5>1. x \in c.users \/ x = e.ip
          BY <1>t, <3>3, <4>1
        <5>2. x \in c.users => x \in d.users
          BY <2>1, <3>1
        <5> QED BY <1>t, <5>1, <5>2
      <4>2. CASE h # k
        BY <1>s, <1>o, <1>t, <2>1, <3>3, <4>2
      <4> QED BY <4>1, <4>2
    <3> QED BY <3>2, <3>3
  <2>3. /\ \E h \in T : V[p].first = H[h].first
        /\ \A h \in T : V[p].first <= H[h].first
    <3>1. PICK h \in S : d.first = G[h].first
      BY <2>1
    <3>2. c.first = IF k \in S THEN G[k].first ELSE t
      BY <1>1, <1>4, <1>s DEF NewGroup
    <3>3. d.first <= c.first \/ k \notin S
      BY <2>1, <3>2
    <3>4. \A x \in T : V[p].first <= H[x].first
      <4> TAKE x \in T
      <4>1. CASE x = k
        BY <1>2, <1>g, <1>t, <3>2, <3>3, <4>1 DEF Earliest
      <4>2. CASE x # k
        <5>1. x \in S /\ H[x].first = G[x].first /\ G[x].first \in Nat /\ d.first <= G[x].first
          BY <1>s, <1>o, <1>g, <2>1, <4>2
        <5> QED BY <1>2, <1>g, <1>t, <5>1 DEF Earliest
      <4> QED BY <4>1, <4>2
    <3>5. \E x \in T : V[p].first = H[x].first
      <4>1. CASE t < d.first
        <5>1. V[p].first = t
          BY <1>2, <1>g, <1>t, <4>1 DEF Earliest
        <5>2. H[k].first = t
          BY <1>2, <1>g, <1>t, <3>2, <3>3, <4>1 DEF Earliest
        <5> QED BY <1>s, <5>1, <5>2
      <4>2. CASE ~(t < d.first)
        <5>1. V[p].first = d.first
          BY <1>2, <1>g, <1>t, <4>2 DEF Earliest
        <5>2. H[h].first = d.first
          BY <1>2, <1>g, <1>o, <1>t, <3>1, <3>2, <4>2 DEF Earliest
        <5> QED BY <1>s, <5>1, <5>2
      <4> QED BY <4>1, <4>2
    <3> QED BY <3>4, <3>5
  <2>4. /\ \E h \in T : V[p].last = H[h].last
        /\ \A h \in T : V[p].last >= H[h].last
    <3>1. PICK h \in S : d.last = G[h].last
      BY <2>1
    <3>2. c.last = IF k \in S THEN G[k].last ELSE t
      BY <1>1, <1>4, <1>s DEF NewGroup
    <3>3. d.last >= c.last \/ k \notin S
      BY <2>1, <3>2
    <3>4. \A x \in T : V[p].last >= H[x].last
      <4> TAKE x \in T
      <4>1. CASE x = k
        BY <1>2, <1>g, <1>t, <3>2, <3>3, <4>1 DEF Latest
      <4>2. CASE x # k
        <5>1. x \in S /\ H[x].last = G[x].last /\ G[x].last \in Nat /\ d.last >= G[x].last
          BY <1>s, <1>o, <1>g, <2>1, <4>2
        <5> QED BY <1>2, <1>g, <1>t, <5>1 DEF Latest
      <4> QED BY <4>1, <4>2
    <3>5. \E x \in T : V[p].last = H[x].last
      <4>1. CASE t > d.last
        <5>1. V[p].last = t
          BY <1>2, <1>g, <1>t, <4>1 DEF Latest
        <5>2. H[k].last = t
          BY <1>2, <1>g, <1>t, <3>2, <3>3, <4>1 DEF Latest
        <5> QED BY <1>s, <5>1, <5>2
      <4>2. CASE ~(t > d.last)
        <5>1. V[p].last = d.last
          BY <1>2, <1>g, <1>t, <4>2 DEF Latest
        <5>2. H[h].last = d.last
          BY <1>2, <1>g, <1>o, <1>t, <3>1, <3>2, <4>2 DEF Latest
        <5> QED BY <1>s, <5>1, <5>2
      <4> QED BY <4>1, <4>2
    <3> QED BY <3>4, <3>5
  <2> QED BY <1>3, <1>5, <1>6, <1>7, <2>2, <2>3, <2>4 DEF SayOf
<1>9. CASE p \notin DOMAIN U
  <2>1. S = {} /\ T = {k}
    BY <1>3, <1>s, <1>9 DEF SayOf
  <2>2. c = NewGroup(e) /\ d = NewGroup(e)
    BY <1>4, <1>s, <1>9, <2>1
  <2>3. H[k] = V[p]
    BY <1>h, <1>v, <2>2
  <2>4. V[p].first <= H[k].first /\ V[p].last >= H[k].last
    BY <1>2, <1>g, <1>t, <2>3 DEF Earliest, Latest
  <2>5. /\ \A x : x \in V[p].users <=> \E h \in T : x \in H[h].users
        /\ \E h \in T : V[p].first = H[h].first
        /\ \A h \in T : V[p].first <= H[h].first
        /\ \E h \in T : V[p].last = H[h].last
        /\ \A h \in T : V[p].last >= H[h].last
    BY <2>1, <2>3, <2>4
  <2> QED BY <1>3, <1>5, <1>6, <1>7, <2>5 DEF SayOf
<1> QED BY <1>8, <1>9

\* Grouping the entries of known hosts by host, and all by provider, say the
\* same of every provider.
LEMMA Readings ==
    ASSUME NEW K, K = {e \in LogEntries : Known(e.host)}, NEW Id, Id = [h \in Hosts |-> h]
    PROVE  \A q \in Seq(LogEntries) :
              /\ DOMAIN GroupBy(Id, Kept(q, K)) \subseteq Hosts
              /\ \A p : p # "none" => SayOf(GroupBy(Id, Kept(q, K)), GroupBy(ProviderOf, q), p)
<1> DEFINE Same(v) == /\ DOMAIN GroupBy(Id, Kept(v, K)) \subseteq Hosts
                      /\ \A p : p # "none" => SayOf(GroupBy(Id, Kept(v, K)), GroupBy(ProviderOf, v), p)
           N == {n \in Nat : \A v \in Seq(LogEntries) : Len(v) = n => Same(v)}
<1>1. 0 \in N
  <2> SUFFICES ASSUME NEW v \in Seq(LogEntries), Len(v) = 0 PROVE Same(v)
    OBVIOUS
  <2>1. v = << >>
    OBVIOUS
  <2>2. Kept(v, K) = << >>
    BY <2>1, KeptEmpty
  <2>3. PICK G, U : G = GroupBy(Id, Kept(v, K)) /\ U = GroupBy(ProviderOf, v)
    OBVIOUS
  <2>4. G = << >> /\ U = << >>
    BY <2>1, <2>2, <2>3, GroupByAppend
  <2>5. DOMAIN G = {} /\ DOMAIN U = {}
    BY <2>4
  <2>6. ASSUME NEW p PROVE SayOf(G, U, p)
    <3>1. HostsOf(G, p) = {}
      BY <2>5 DEF HostsOf
    <3>2. PICK f : f = [h \in HostsOf(G, p) |-> G[h].requests]
      OBVIOUS
    <3>3. PICK g : g = [h \in HostsOf(G, p) |-> G[h].tokens]
      OBVIOUS
    <3>4. DOMAIN f = {} /\ DOMAIN g = {}
      BY <3>1, <3>2, <3>3
    <3>5. SumFunction(f) = 0 /\ SumFunction(g) = 0
      BY <3>4, SumOfNothing
    <3>6. SayOf(G, U, p)
      BY <2>5, <3>1, <3>2, <3>3, <3>5 DEF SayOf, Counted
    <3> QED BY <3>6
  <2> QED BY <2>3, <2>5, <2>6
<1>2. ASSUME NEW n \in N \cap Nat PROVE n + 1 \in N
  <2> SUFFICES ASSUME NEW v \in Seq(LogEntries), Len(v) = n + 1 PROVE Same(v)
    OBVIOUS
  <2>1. PICK w \in Seq(LogEntries), e \in LogEntries :
          Len(w) = n /\ v = Append(w, e) /\ \A i \in 1..n : w[i] = v[i]
    BY LastApart, Zenon
  <2>2. Same(w)
    BY <1>2, <2>1
  <2>3. PICK q, U, V : /\ q = ProviderOf[e.host] /\ U = GroupBy(ProviderOf, w)
                       /\ V = GroupBy(ProviderOf, v)
    OBVIOUS
  <2>4. V = AddEntry(U, q, e)
    BY <2>1, <2>3, GroupByAppend
  <2>5. PICK G, H : G = GroupBy(Id, Kept(w, K)) /\ H = GroupBy(Id, Kept(v, K))
    OBVIOUS
  <2>6. Kept(w, K) \in Seq(LogEntries)
    BY KeptElements
  <2>7. Kept(v, K) = IF e \in K THEN Append(Kept(w, K), e) ELSE Kept(w, K)
    BY <2>1, KeptAppend
  <2>8. e.host \in Hosts /\ Id[e.host] = e.host
    BY EntryFacts
  <2>9. H = IF e \in K THEN AddEntry(G, e.host, e) ELSE G
    <3>1. GroupBy(Id, Append(Kept(w, K), e)) = AddEntry(GroupBy(Id, Kept(w, K)), Id[e.host], e)
      BY <2>6, GroupByAppend
    <3>2. CASE e \in K
      BY <2>5, <2>7, <2>8, <3>1, <3>2
    <3>3. CASE e \notin K
      BY <2>5, <2>7, <3>3
    <3> QED BY <3>2, <3>3
  <2>10. e \in K <=> q # "none"
    BY <2>3 DEF Known
  <2>11. IsGroups(G) /\ IsGroups(U)
    BY <2>3, <2>5, <2>6, GroupByType
  <2>12. DOMAIN G \subseteq Hosts /\ \A p : p # "none" => SayOf(G, U, p)
    BY <2>2, <2>3, <2>5
  <2>13. DOMAIN H \subseteq Hosts
    <3>1. DOMAIN AddEntry(G, e.host, e) = DOMAIN G \cup {e.host}
      BY GroupKeys
    <3> QED BY <2>8, <2>9, <2>12, <3>1
  <2>14. ASSUME NEW p, p # "none" PROVE SayOf(H, V, p)
    <3>1. SayOf(G, U, p)
      BY <2>12, <2>14
    <3>2. CASE p = q
      <4>1. H = AddEntry(G, e.host, e) /\ V = AddEntry(U, p, e) /\ p = ProviderOf[e.host]
        BY <2>3, <2>4, <2>9, <2>10, <2>14, <3>2
      <4> QED BY <2>11, <2>12, <3>1, <4>1, OwnGrow
    <3>3. CASE p # q
      <4>1. H = G \/ H = AddEntry(G, e.host, e)
        BY <2>9
      <4>2. V = AddEntry(U, ProviderOf[e.host], e) /\ p # ProviderOf[e.host]
        BY <2>3, <2>4, <3>3
      <4> QED BY <2>11, <3>1, <4>1, <4>2, OthersStay
    <3> QED BY <3>2, <3>3
  <2> QED BY <2>3, <2>5, <2>13, <2>14
<1>3. Nat \subseteq N
  <2> HIDE DEF N
  <2> QED BY <1>1, <1>2, SetInduction
<1>4. \A q \in Seq(LogEntries) : Len(q) \in N
  BY <1>3
<1> QED BY <1>4

\* The least and the greatest element, found by any other means.
LEMMA LeastIsMin ==
    ASSUME NEW S \in SUBSET Nat, NEW m \in S
    PROVE  /\ (\A x \in S : m <= x) => Min(S) = m
           /\ (\A x \in S : m >= x) => Max(S) = m
<1>1. ASSUME \A x \in S : m <= x PROVE Min(S) = m
  <2>1. PICK n : n = Min(S)
    OBVIOUS
  <2>2. n \in S /\ \A y \in S : n <= y
    BY <1>1, <2>1 DEF Min
  <2>3. n \in Nat /\ m \in Nat /\ n <= m /\ m <= n
    BY <1>1, <2>2
  <2> QED BY <2>1, <2>3
<1>2. ASSUME \A x \in S : m >= x PROVE Max(S) = m
  <2>1. PICK n : n = Max(S)
    OBVIOUS
  <2>2. n \in S /\ \A y \in S : n >= y
    BY <1>2, <2>1 DEF Max
  <2>3. n \in Nat /\ m \in Nat /\ n >= m /\ m >= n
    BY <1>2, <2>2
  <2> QED BY <2>1, <2>3
<1> QED BY <1>1, <1>2

\* The two ways to read any logs agree.
LEMMA UsageAgrees == ASSUME logged \in Seq(LogEntries) PROVE UsageAgreesWithDedup
<1>1. PICK a, b : a = FromSource(logged, "dns") /\ b = FromSource(logged, "proxy")
  OBVIOUS
<1>2. a \in Seq(LogEntries) /\ b \in Seq(LogEntries)
  BY <1>1, KeptElements DEF FromSource
<1>3. PICK q : q = a \o b
  OBVIOUS
<1>4. q \in Seq(LogEntries) /\ BySource(logged) = q
  BY <1>1, <1>2, <1>3 DEF BySource
<1>5. PICK K, Id : K = {e \in LogEntries : Known(e.host)} /\ Id = [h \in Hosts |-> h]
  OBVIOUS
<1> DEFINE G == HostGroups(logged)
           U == ProviderUsage(logged)
<1>7. G = GroupBy(Id, Kept(q, K))
  BY <1>4, <1>5 DEF HostGroups, Matched
<1>8. U = GroupBy(ProviderOf, q)
  <2>1. Combined(GroupBy(ProviderOf, a), GroupBy(ProviderOf, b)) = GroupBy(ProviderOf, a \o b)
    BY <1>2, CombinedIsOne
  <2> QED BY <1>1, <1>3, <2>1 DEF ProviderUsage, Usage
<1> HIDE DEF G, U
<1>9. \A p : p # "none" => SayOf(G, U, p)
  BY <1>4, <1>5, <1>7, <1>8, Readings
<1>10. IsGroups(G)
  <2>1. Kept(q, K) \in Seq(LogEntries)
    BY <1>4, KeptElements
  <2> QED BY <1>7, <2>1, GroupByType
<1>11. ASSUME NEW p, p # "none", NEW S, S = HostsOf(G, p), p \in DOMAIN U
       PROVE  /\ U[p].requests = SumFunction([h \in S |-> G[h].requests])
              /\ U[p].tokens = SumFunction([h \in S |-> G[h].tokens])
              /\ U[p].users = UNION {G[h].users : h \in S}
              /\ U[p].first = Min({G[h].first : h \in S})
              /\ U[p].last = Max({G[h].last : h \in S})
  <2>1. SayOf(G, U, p)
    BY <1>9, <1>11
  <2>2. U[p].requests = SumFunction([h \in S |-> G[h].requests])
    BY <1>11, <2>1 DEF SayOf, Counted
  <2>3. U[p].tokens = SumFunction([h \in S |-> G[h].tokens])
    BY <1>11, <2>1 DEF SayOf, Counted
  <2>4. U[p].users = UNION {G[h].users : h \in S}
    <3>1. \A x : x \in U[p].users <=> \E h \in S : x \in G[h].users
      BY <1>11, <2>1 DEF SayOf
    <3>2. \A x : x \in UNION {G[h].users : h \in S} <=> \E h \in S : x \in G[h].users
      OBVIOUS
    <3> QED BY <3>1, <3>2
  <2>5. \A h \in S : G[h].first \in Nat /\ G[h].last \in Nat
    BY <1>10, <1>11 DEF IsGroups, HostsOf
  <2>6. U[p].first = Min({G[h].first : h \in S})
    <3>1. PICK F : F = {G[h].first : h \in S}
      OBVIOUS
    <3>2. F \in SUBSET Nat
      BY <2>5, <3>1
    <3>3. U[p].first \in F /\ \A x \in F : U[p].first <= x
      BY <1>11, <2>1, <3>1 DEF SayOf
    <3> QED BY <3>1, <3>2, <3>3, LeastIsMin
  <2>7. U[p].last = Max({G[h].last : h \in S})
    <3>1. PICK F : F = {G[h].last : h \in S}
      OBVIOUS
    <3>2. F \in SUBSET Nat
      BY <2>5, <3>1
    <3>3. U[p].last \in F /\ \A x \in F : U[p].last >= x
      BY <1>11, <2>1, <3>1 DEF SayOf
    <3> QED BY <3>1, <3>2, <3>3, LeastIsMin
  <2> QED BY <2>2, <2>3, <2>4, <2>6, <2>7
<1>12. SUFFICES ASSUME NEW p \in {ProviderOf[h] : h \in {x \in Hosts : Known(x)}}
                PROVE  LET hosts == {h \in DOMAIN G : ProviderOf[h] = p}
                       IN  /\ p \in DOMAIN U <=> hosts # {}
                           /\ p \in DOMAIN U =>
                                 /\ U[p].requests = SumFunction([h \in hosts |-> G[h].requests])
                                 /\ U[p].tokens = SumFunction([h \in hosts |-> G[h].tokens])
                                 /\ U[p].users = UNION {G[h].users : h \in hosts}
                                 /\ U[p].first = Min({G[h].first : h \in hosts})
                                 /\ U[p].last = Max({G[h].last : h \in hosts})
  BY Zenon DEF UsageAgreesWithDedup, G, U
<1>13. PICK S : S = HostsOf(G, p)
  OBVIOUS
<1>14. p # "none"
  BY DEF Known
<1>15. p \in DOMAIN U <=> S # {}
  BY <1>9, <1>13, <1>14 DEF SayOf
<1>16. S = {h \in DOMAIN G : ProviderOf[h] = p}
  BY <1>13 DEF HostsOf
<1> QED BY <1>11, <1>13, <1>14, <1>15, <1>16

\* Every event that an enforcement can create.
CasbEvents == {[app |-> r.app, action |-> Verdict(r)] : r \in Enforcements}

\* IsSuffix, element by element.
LEMMA SuffixElements ==
    ASSUME NEW T, NEW s \in Seq(T), NEW t \in Seq(T)
    PROVE  IsSuffix(s, t) <=> /\ Len(s) <= Len(t)
                              /\ \A i \in 1..Len(s) : s[i] = t[Len(t) - Len(s) + i]
<1>1. PICK n, m : n = Len(s) /\ m = Len(t) /\ n \in Nat /\ m \in Nat
  OBVIOUS
<1>2. PICK u, w : u = Reverse(s) /\ w = Reverse(t)
  OBVIOUS
<1>3. /\ u = [i \in 1..n |-> s[n - i + 1]] /\ w = [i \in 1..m |-> t[m - i + 1]]
      /\ u \in Seq(T) /\ w \in Seq(T) /\ Len(u) = n /\ Len(w) = m
  BY <1>1, <1>2 DEF Reverse
<1>4. IsSuffix(s, t) <=> n <= m /\ SubSeq(u, 1, n) = SubSeq(w, 1, n)
  BY <1>2, <1>3 DEF IsSuffix, IsPrefix
<1>5. n <= m => (SubSeq(u, 1, n) = SubSeq(w, 1, n) <=> \A i \in 1..n : u[i] = w[i])
  <2> SUFFICES ASSUME n <= m
               PROVE  SubSeq(u, 1, n) = SubSeq(w, 1, n) <=> \A i \in 1..n : u[i] = w[i]
    OBVIOUS
  <2>1. SubSeq(u, 1, n) = [i \in 1..n |-> u[i]]
    BY <1>1, <1>3
  <2>2. SubSeq(w, 1, n) = [i \in 1..n |-> w[i]]
    BY <1>1, <1>3
  <2> QED BY <2>1, <2>2
<1>6. n <= m => ((\A i \in 1..n : u[i] = w[i]) <=> \A i \in 1..n : s[i] = t[m - n + i])
  <2> SUFFICES ASSUME n <= m
               PROVE  (\A i \in 1..n : u[i] = w[i]) <=> \A i \in 1..n : s[i] = t[m - n + i]
    OBVIOUS
  <2>1. \A i \in 1..n : /\ n - i + 1 \in 1..n /\ n - (n - i + 1) + 1 = i
                        /\ m - (n - i + 1) + 1 = m - n + i
    BY <1>1
  <2>2. \A i \in 1..n : u[n - i + 1] = s[i] /\ w[n - i + 1] = t[m - n + i]
    BY <1>1, <1>3, <2>1
  <2>3. \A i \in 1..n : u[i] = s[n - i + 1] /\ w[i] = t[m - n + (n - i + 1)]
    BY <1>1, <1>3
  <2> QED BY <2>1, <2>2, <2>3
<1> QED BY <1>1, <1>4, <1>5, <1>6

\* The inductive invariant: what is logged are entries, what is recorded are
\* events, and the activity log holds the newest of them.
DiscoveryInv ==
    /\ logged \in Seq(LogEntries)
    /\ recorded \in Seq(CasbEvents)
    /\ casb.log \in Seq(CasbEvents)
    /\ ActivityHoldsNewest

\* One event more: what is kept of the log is still the newest of the events.
LEMMA CutKeepsNewest ==
    ASSUME NEW T, NEW s \in Seq(T), NEW t \in Seq(T), NEW e \in T,
           Len(s) <= LogMax, IsSuffix(s, t), Len(s) >= Earliest(LogKeep, Len(t))
    PROVE  /\ Cut(Append(s, e)) \in Seq(T)
           /\ Len(Cut(Append(s, e))) <= LogMax
           /\ IsSuffix(Cut(Append(s, e)), Append(t, e))
           /\ Len(Cut(Append(s, e))) >= Earliest(LogKeep, Len(Append(t, e)))
<1>1. PICK n \in Nat, m \in Nat : n = Len(s) /\ m = Len(t)
  OBVIOUS
<1>2. PICK u, w : u = Append(s, e) /\ w = Append(t, e)
  OBVIOUS
<1>3. /\ u \in Seq(T) /\ w \in Seq(T) /\ Len(u) = n + 1 /\ Len(w) = m + 1
      /\ u[n + 1] = e /\ w[m + 1] = e
      /\ (\A i \in 1..n : u[i] = s[i]) /\ (\A i \in 1..m : w[i] = t[i])
  BY <1>1, <1>2
<1>4. n <= m /\ \A i \in 1..n : s[i] = t[m - n + i]
  BY <1>1, SuffixElements
<1>5. \A i \in 1..(n + 1) : u[i] = w[m - n + i]
  <2> TAKE i \in 1..(n + 1)
  <2>1. CASE i \in 1..n
    <3>1. m - n + i \in 1..m
      BY <1>1, <1>4, <2>1
    <3> QED BY <1>3, <1>4, <2>1, <3>1
  <2>2. CASE i = n + 1
    <3>1. m - n + i = m + 1
      BY <1>1, <2>2
    <3> QED BY <1>3, <2>2, <3>1
  <2> QED BY <1>1, <2>1, <2>2
<1>6. LogKeep \in Nat \ {0} /\ LogMax \in Nat /\ LogKeep <= LogMax
  BY DiscoveryAssumption
<1>7. PICK c : c = Cut(u)
  OBVIOUS
<1>8. CASE n + 1 <= LogMax
  <2>1. c = u
    BY <1>1, <1>3, <1>6, <1>7, <1>8 DEF Cut
  <2>2. IsSuffix(c, w)
    <3>1. Len(u) = n + 1 /\ Len(w) = m + 1 /\ n <= m
      BY <1>3, <1>4
    <3>2. ASSUME NEW i \in 1..(n + 1) PROVE u[i] = w[Len(w) - Len(u) + i]
      <4>1. Len(w) - Len(u) + i = m - n + i
        BY <3>1
      <4> QED BY <1>5, <4>1
    <3>3. Len(u) <= Len(w)
      BY <3>1
    <3>4. \A i \in 1..Len(u) : u[i] = w[Len(w) - Len(u) + i]
      <4>1. \A i \in 1..Len(u) : i \in 1..(n + 1)
        BY <3>1
      <4> QED BY <3>2, <4>1
    <3> QED BY <1>3, <2>1, <3>3, <3>4, SuffixElements
  <2>3. Len(c) >= Earliest(LogKeep, m + 1)
    BY <1>1, <1>3, <1>6, <2>1 DEF Earliest
  <2> QED BY <1>2, <1>3, <1>7, <1>8, <2>1, <2>2, <2>3
<1>9. CASE n + 1 > LogMax
  <2>1. PICK k : k = n + 1 - LogKeep
    OBVIOUS
  <2>2. k \in Nat /\ k + LogKeep = n + 1
    BY <1>1, <1>6, <1>9, <2>1
  <2>3. c = SubSeq(u, k + 1, n + 1)
    <3>1. c = SubSeq(u, Len(u) - LogKeep + 1, Len(u))
      BY <1>3, <1>6, <1>7, <1>9 DEF Cut
    <3>2. Len(u) = n + 1 /\ Len(u) - LogKeep + 1 = k + 1
      BY <1>3, <1>6, <2>2
    <3> QED BY <3>1, <3>2
  <2>4. c \in Seq(T) /\ Len(c) = LogKeep /\ \A i \in 1..LogKeep : c[i] = u[k + i]
    BY <1>1, <1>3, <1>6, <2>2, <2>3
  <2>5. IsSuffix(c, w)
    <3>1. Len(c) <= Len(w)
      BY <1>1, <1>3, <1>4, <1>6, <2>2, <2>4
    <3>2. ASSUME NEW i \in 1..LogKeep PROVE c[i] = w[m + 1 - LogKeep + i]
      <4>1. k + i \in 1..(n + 1) /\ m - n + (k + i) = m + 1 - LogKeep + i
        BY <1>1, <1>6, <2>2
      <4>2. u[k + i] = w[m - n + (k + i)]
        BY <1>5, <4>1
      <4> QED BY <2>4, <4>1, <4>2
    <3>3. ASSUME NEW i \in 1..Len(c) PROVE c[i] = w[Len(w) - Len(c) + i]
      <4>1. Len(c) = LogKeep /\ Len(w) = m + 1 /\ i \in 1..LogKeep
        BY <1>3, <2>4
      <4>2. Len(w) - Len(c) + i = m + 1 - LogKeep + i
        BY <4>1
      <4> QED BY <3>2, <4>1, <4>2
    <3> QED BY <1>3, <2>4, <3>1, <3>3, SuffixElements
  <2>6. Len(c) >= Earliest(LogKeep, m + 1)
    BY <1>1, <1>6, <2>4 DEF Earliest
  <2> QED BY <1>2, <1>3, <1>6, <1>7, <2>4, <2>5, <2>6
<1> QED BY <1>1, <1>6, <1>8, <1>9

\* The initial state, and every step of the three parts.
THEOREM DiscoveryInvariant == AssetSpec => []DiscoveryInv
<1>1. AssetInit => DiscoveryInv
  <2> SUFFICES ASSUME AssetInit PROVE DiscoveryInv
    OBVIOUS
  <2> USE DEF AssetInit, DiscoveryInit, CasbInit
  <2>1. logged = << >> /\ recorded = << >> /\ casb.log = << >>
    OBVIOUS
  <2>2. \A T : << >> \in Seq(T)
    OBVIOUS
  <2>3. IsSuffix(<< >>, << >>)
    <3>0. << >> \in Seq(Nat)
      BY <2>2
    <3>1. PICK s \in Seq(Nat) : s = << >>
      BY <3>0
    <3>2. Len(s) <= Len(s) /\ \A i \in 1..Len(s) : s[i] = s[Len(s) - Len(s) + i]
      BY <3>1
    <3>3. IsSuffix(s, s)
      BY <3>2, SuffixElements
    <3> QED BY <3>1, <3>3
  <2>4. LogKeep \in Nat /\ LogMax \in Nat
    BY DiscoveryAssumption
  <2>5. ActivityHoldsNewest
    BY <2>1, <2>3, <2>4 DEF ActivityHoldsNewest, Earliest
  <2> QED BY <2>1, <2>2, <2>5 DEF DiscoveryInv
<1>2. DiscoveryInv /\ [AssetNext]_assetVars => DiscoveryInv'
  <2> SUFFICES ASSUME DiscoveryInv, [AssetNext]_assetVars PROVE DiscoveryInv'
    OBVIOUS
  <2> USE DEF DiscoveryInv
  <2>c. UNCHANGED casbVars => /\ recorded' \in Seq(CasbEvents) /\ casb.log' \in Seq(CasbEvents)
                               /\ ActivityHoldsNewest'
    BY DEF casbVars, ActivityHoldsNewest
  <2>1. CASE DiscoveryNext /\ UNCHANGED <<casbVars, prices>>
    <3>1. logged' \in Seq(LogEntries)
      <4>1. CASE MergeInventory
        BY <4>1 DEF MergeInventory
      <4>2. ASSUME NEW e \in LogEntries, Log(e) PROVE logged' \in Seq(LogEntries)
        BY <4>2 DEF Log
      <4>3. ASSUME NEW h \in Hosts, RemoveRecord(h) PROVE logged' \in Seq(LogEntries)
        BY <4>3 DEF RemoveRecord
      <4> QED BY <2>1, <4>1, <4>2, <4>3 DEF DiscoveryNext
    <3> QED BY <2>1, <2>c, <3>1
  <2>2. CASE CasbNext /\ UNCHANGED <<discoveryVars, prices>>
    <3>1. PICK r \in Enforcements : Enforce(r)
      BY <2>2 DEF CasbNext
    <3>2. logged' \in Seq(LogEntries)
      BY <2>2 DEF discoveryVars
    <3>3. CASE UNCHANGED casbVars
      BY <2>c, <3>2, <3>3
    <3>4. CASE ~UNCHANGED casbVars
      <4>1. PICK e : e = [app |-> r.app, action |-> Verdict(r)]
        OBVIOUS
      <4>2. e \in CasbEvents
        BY <4>1 DEF CasbEvents
      <4>3. recorded' = Append(recorded, e) /\ casb'.log = Cut(Append(casb.log, e))
        BY <3>1, <3>4, <4>1 DEF Enforce
      <4>4. /\ Len(casb.log) <= LogMax /\ IsSuffix(casb.log, recorded)
            /\ Len(casb.log) >= Earliest(LogKeep, Len(recorded))
        BY DEF ActivityHoldsNewest
      <4>5. PICK s, t : s = casb.log /\ t = recorded
        OBVIOUS
      <4>6. /\ s \in Seq(CasbEvents) /\ t \in Seq(CasbEvents) /\ Len(s) <= LogMax /\ IsSuffix(s, t)
            /\ Len(s) >= Earliest(LogKeep, Len(t))
        BY <4>4, <4>5
      <4>7. /\ Cut(Append(s, e)) \in Seq(CasbEvents)
            /\ Len(Cut(Append(s, e))) <= LogMax
            /\ IsSuffix(Cut(Append(s, e)), Append(t, e))
            /\ Len(Cut(Append(s, e))) >= Earliest(LogKeep, Len(Append(t, e)))
        BY <4>2, <4>6, CutKeepsNewest
      <4>8. recorded' \in Seq(CasbEvents) /\ casb'.log \in Seq(CasbEvents)
        BY <4>2, <4>3, <4>5, <4>7
      <4>9. ActivityHoldsNewest'
        BY <4>3, <4>5, <4>7 DEF ActivityHoldsNewest
      <4> QED BY <3>2, <4>8, <4>9
    <3> QED BY <3>3, <3>4
  <2>3. CASE PriceNext /\ UNCHANGED <<discoveryVars, casbVars>>
    BY <2>3, <2>c DEF discoveryVars
  <2>4. CASE UNCHANGED assetVars
    BY <2>4, <2>c DEF assetVars, discoveryVars
  <2> QED BY <2>1, <2>2, <2>3, <2>4 DEF AssetNext
<1> QED BY <1>1, <1>2, PTL DEF AssetSpec

\* DiscoveryAgrees, for every table of finitely many hosts, any logs and any
\* number of enforcements: what DedupMerge groups by host and what
\* UsageAnalyzer sums by provider say the same of every provider, and the
\* activity log of _create_event holds the newest events.
THEOREM DiscoveryKeepsAgreeing == AssetSpec => []DiscoveryAgrees
<1>1. DiscoveryInv => DiscoveryAgrees
  BY UsageAgrees DEF DiscoveryInv, DiscoveryAgrees
<1> QED BY <1>1, DiscoveryInvariant, PTL
=============================================================================
