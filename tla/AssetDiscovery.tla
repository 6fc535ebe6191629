----------------------------- MODULE AssetDiscovery -----------------------------
(***************************************************************************)
(* What the gateway knows about AI services in use, in three parts:        *)
(*                                                                         *)
(*  - discovery: DNS and proxy log entries merged three ways, per host by  *)
(*    DedupMerge, per provider by UsageAnalyzer, and batch by batch into   *)
(*    the AssetInventory (discovery/dedup_merge.py, usage_analyzer.py,     *)
(*    inventory.py);                                                       *)
(*  - the CASB engine, its activity log and its counters (casb/engine.py,  *)
(*    casb/classifier.py);                                                 *)
(*  - the price tables of the cost services (discovery/cost_attribution.py)*)
(***************************************************************************)
EXTENDS Integers, Sequences, FiniteSets, SequencesExt, FiniteSetsExt, Functions, Lists

CONSTANTS LogEntries,     \* [source, host, ip, bytes, time] of the two logs
          ProviderOf,     \* host -> provider that the matcher finds, or "none"
          MaxLogged,      \* bound of the entries logged
          AppPolicies,    \* app -> [class, action] of casb's configuration
          GroupRules,     \* <<group, app>> -> action
          Enforcements,   \* requests: [app, groups], groups a sequence
          LogMax,         \* length at which the activity log is cut
          LogKeep,        \* entries kept by the cut
          MaxEnforced,    \* bound of the requests enforced
          CostServices, CostProviders,
          ListedProviders \* providers of PROVIDER_PRICING

ASSUME DiscoveryAssumption ==
    /\ LogKeep \in Nat \ {0} /\ LogMax \in Nat /\ LogKeep <= LogMax
    /\ IsFiniteSet(DOMAIN ProviderOf)
    /\ \A e \in LogEntries : e.host \in DOMAIN ProviderOf /\ e.bytes \in Nat /\ e.time \in Nat

VARIABLES logged,         \* the entries parsed so far, in order
          taken,          \* how many of them the inventory has merged
          inventory,      \* host -> InventoryRecord, of the hosts seen
          casb,           \* activity log and telemetry
          recorded,       \* every event the engine ever created
          prices          \* the nested price tables, shared and own

discoveryVars == <<logged, taken, inventory>>
casbVars == <<casb, recorded>>

Hosts == DOMAIN ProviderOf
Known(h) == ProviderOf[h] # "none"
Tokens(e) == IF e.source = "proxy" THEN e.bytes \div 4 ELSE 0

----------------------------------------------------------------------------
(* The loop of DedupMerge and of UsageAnalyzer: an entry opens the group of *)
(* its key or adds to it.                                                   *)

NewGroup(e) == [sources |-> {}, users |-> {}, requests |-> 0, tokens |-> 0,
                first |-> e.time, last |-> e.time]

Earliest(a, b) == IF a <= b THEN a ELSE b
Latest(a, b) == IF a >= b THEN a ELSE b

AddToGroup(g, e) ==
    [sources  |-> g.sources \cup {e.source},
     users    |-> g.users \cup {e.ip},
     requests |-> g.requests + 1,
     tokens   |-> g.tokens + Tokens(e),
     first    |-> Earliest(g.first, e.time),
     last     |-> Latest(g.last, e.time)]

AddEntry(groups, k, e) ==
    [x \in DOMAIN groups \cup {k} |->
        IF x # k THEN groups[x]
        ELSE AddToGroup(IF k \in DOMAIN groups THEN groups[k] ELSE NewGroup(e), e)]

\* The groups of a log, by what key says of the hosts.
GroupBy(key, log) ==
    LET groups[i \in 0..Len(log)] ==
          IF i = 0 THEN << >> ELSE AddEntry(groups[i - 1], key[log[i].host], log[i])
    IN  groups[Len(log)]

FromSource(log, source) == Kept(log, {e \in LogEntries : e.source = source})
BySource(log) == FromSource(log, "dns") \o FromSource(log, "proxy")

(* DedupMerge: by matched host, DNS entries first.                          *)

Matched(log) == Kept(log, {e \in LogEntries : Known(e.host)})

HostGroups(log) == GroupBy([h \in Hosts |-> h], Matched(BySource(log)))

(* UsageAnalyzer: by provider, each log for itself, then summed.            *)

Usage(log, source) == GroupBy(ProviderOf, FromSource(log, source))

MergeSummaries_DnsFirst(d, x) ==
    [sources |-> d.sources \cup x.sources, users |-> d.users \cup x.users,
     requests |-> d.requests + x.requests, tokens |-> d.tokens + x.tokens,
     first |-> d.first, last |-> Latest(d.last, x.last)]

\* merge_summaries: counts added, users united, the wider interval
MergeSummaries(d, x) ==
    [sources |-> d.sources \cup x.sources, users |-> d.users \cup x.users,
     requests |-> d.requests + x.requests, tokens |-> d.tokens + x.tokens,
     first |-> Earliest(d.first, x.first), last |-> Latest(d.last, x.last)]

\* of the providers in either log
Combined(dns, proxy) ==
    [p \in DOMAIN dns \cup DOMAIN proxy |->
        IF p \notin DOMAIN proxy THEN dns[p]
        ELSE IF p \notin DOMAIN dns THEN proxy[p]
        ELSE MergeSummaries(dns[p], proxy[p])]

ProviderUsage(log) == Combined(Usage(log, "dns"), Usage(log, "proxy"))

(* AssetInventory.merge_from_discovery of the entries logged since the last *)
(* merge, then add_record of each host of the batch.                        *)

Asset(h, batch) ==
    LET mine == SelectSeq(BySource(batch), LAMBDA e : e.host = h)
        dns == FromSource(mine, "dns")
        proxy == FromSource(mine, "proxy")
    IN  [sources |-> {mine[i].source : i \in DOMAIN mine},
         users   |-> Len(proxy),
         volume  |-> FoldLeft(LAMBDA v, e : v + e.bytes, 0, proxy),
         first   |-> mine[1].time,
         last    |-> FoldLeft(LAMBDA t, e : Latest(t, e.time), mine[1].time, dns)]

\* add_record on a known host: sums, the later time, united sources
AddRecord(old, new) ==
    [sources |-> old.sources \cup new.sources,
     users   |-> old.users + new.users,
     volume  |-> old.volume + new.volume,
     first   |-> old.first,
     last    |-> Latest(old.last, new.last)]

DiscoveryInit == logged = <<>> /\ taken = 0 /\ inventory = <<>>

Log(e) == /\ Len(logged) < MaxLogged
          /\ logged' = Append(logged, e)
          /\ UNCHANGED <<taken, inventory>>

Batch == SubSeq(logged, taken + 1, Len(logged))

MergeInventory ==
    /\ taken < Len(logged)
    /\ LET fresh == {Batch[i].host : i \in DOMAIN Batch}
       IN  inventory' = [h \in DOMAIN inventory \cup fresh |->
              IF h \notin fresh THEN inventory[h]
              ELSE IF h \in DOMAIN inventory THEN AddRecord(inventory[h], Asset(h, Batch))
              ELSE Asset(h, Batch)]
    /\ taken' = Len(logged)
    /\ UNCHANGED logged

RemoveRecord(h) == /\ h \in DOMAIN inventory
                   /\ inventory' = Restrict(inventory, DOMAIN inventory \ {h})
                   /\ UNCHANGED <<logged, taken>>

DiscoveryNext == \/ MergeInventory
                 \/ \E e \in LogEntries : Log(e)
                 \/ \E h \in Hosts : RemoveRecord(h)

----------------------------------------------------------------------------
(* The CASB engine.                                                         *)

CasbInit ==
    /\ casb = [log |-> <<>>, total |-> 0, apps |-> <<>>, classes |-> <<>>]
    /\ recorded = <<>>

\* AppPolicy.__post_init__ and resolve_action
DefaultAction(class) == CASE class = "sanctioned" -> "allow"
                          [] class = "tolerated"  -> "alert"
                          [] OTHER                -> "block"
ActionOf(p) == IF p.action = "none" THEN DefaultAction(p.class) ELSE p.action

\* the first of the user's groups that has an override for the app
Overridden(r) == SelectSeq(r.groups, LAMBDA g : <<g, r.app>> \in DOMAIN GroupRules)

Verdict(r) == IF Overridden(r) # <<>> THEN GroupRules[<<Head(Overridden(r)), r.app>>]
              ELSE IF r.app \in DOMAIN AppPolicies THEN ActionOf(AppPolicies[r.app])
              ELSE "block"

ClassOf(r) == IF r.app \in DOMAIN AppPolicies THEN AppPolicies[r.app].class ELSE "unsanctioned"

Bump(counts, k) == [x \in DOMAIN counts \cup {k} |->
                      (IF x \in DOMAIN counts THEN counts[x] ELSE 0) + (IF x = k THEN 1 ELSE 0)]

Cut_Oldest(log) == IF Len(log) > LogMax THEN SubSeq(log, 1, LogKeep) ELSE log

\* _create_event: the log is cut to its newest entries when it grows too long
Cut(log) == IF Len(log) > LogMax THEN SubSeq(log, Len(log) - LogKeep + 1, Len(log)) ELSE log

\* An override decides without an event and without telemetry.
Enforce(r) ==
    /\ Len(recorded) < MaxEnforced
    /\ \/ /\ Overridden(r) # <<>>
          /\ UNCHANGED casbVars
       \/ /\ Overridden(r) = <<>>
          /\ LET event == [app |-> r.app, action |-> Verdict(r)]
             IN  /\ recorded' = Append(recorded, event)
                 /\ casb' = [log |-> Cut(Append(casb.log, event)),
                             total |-> casb.total + 1,
                             apps |-> Bump(casb.apps, r.app),
                             classes |-> Bump(casb.classes, ClassOf(r))]

CasbNext == \E r \in Enforcements : Enforce(r)

----------------------------------------------------------------------------
(* Cost services. The outer table is copied, the tables of the listed       *)
(* providers are not.                                                       *)

PriceInit == prices = [shared |-> [p \in ListedProviders |-> 1],
                       own |-> [s \in CostServices |-> [p \in CostProviders \ ListedProviders |-> 0]]]

SetPricing(s, p) ==
    prices' = IF p \in ListedProviders THEN [prices EXCEPT !.shared[p] = 2]
              ELSE [prices EXCEPT !.own[s][p] = 2]

Price(s, p) == IF p \in ListedProviders THEN prices.shared[p] ELSE prices.own[s][p]

PriceNext == \E s \in CostServices, p \in CostProviders : SetPricing(s, p)

----------------------------------------------------------------------------
(* The parts share no variable and interleave freely.                       *)

assetVars == <<discoveryVars, casbVars, prices>>

AssetInit == DiscoveryInit /\ CasbInit /\ PriceInit

AssetNext == \/ DiscoveryNext /\ UNCHANGED <<casbVars, prices>>
             \/ CasbNext /\ UNCHANGED <<discoveryVars, prices>>
             \/ PriceNext /\ UNCHANGED <<discoveryVars, casbVars>>

AssetSpec == AssetInit /\ [][AssetNext]_assetVars

----------------------------------------------------------------------------
(* Properties.                                                              *)

\* The two ways to read the logs agree: for every provider, the requests and
\* tokens of the hosts that DedupMerge grouped add up to what UsageAnalyzer
\* summed over both logs, for the same users and over the same interval.
UsageAgreesWithDedup ==
    LET groups == HostGroups(logged)
        usage == ProviderUsage(logged)
    IN  \A p \in {ProviderOf[h] : h \in {x \in Hosts : Known(x)}} :
            LET hosts == {h \in DOMAIN groups : ProviderOf[h] = p}
            IN  /\ p \in DOMAIN usage <=> hosts # {}
                /\ p \in DOMAIN usage =>
                      /\ usage[p].requests = SumFunction([h \in hosts |-> groups[h].requests])
                      /\ usage[p].tokens = SumFunction([h \in hosts |-> groups[h].tokens])
                      /\ usage[p].users = UNION {groups[h].users : h \in hosts}
                      /\ usage[p].first = Min({groups[h].first : h \in hosts})
                      /\ usage[p].last = Max({groups[h].last : h \in hosts})

\* The activity log holds the newest events that were created, however often
\* it was cut, and never more than its limit.
ActivityHoldsNewest ==
    /\ Len(casb.log) <= LogMax
    /\ IsSuffix(casb.log, recorded)
    /\ Len(casb.log) >= Earliest(LogKeep, Len(recorded))

\* The readings of one traffic agree, and the log keeps the newest entries.
DiscoveryAgrees ==
    /\ UsageAgreesWithDedup
    /\ ActivityHoldsNewest

(* Formulas that the code does not satisfy.                                 *)

\* The inventory counts users: it counts the proxy entries that name one.
InventoryCountsUsers ==
    \A h \in DOMAIN inventory :
        inventory[h].users <= Cardinality({logged[i].ip : i \in 1..taken})

\* The inventory knows when a service was last seen: a proxy entry after the
\* first one of its batch does not move the time.
InventoryLastSeen ==
    \A h \in DOMAIN inventory : \A i \in 1..taken :
        logged[i].host = h => inventory[h].last >= logged[i].time

\* A price set in one service leaves the other services' prices alone: the
\* tables of the listed providers are shared.
PricingIsOwn ==
    [][\E s \in CostServices : \A t \in CostServices \ {s}, p \in CostProviders :
          Price(t, p)' = Price(t, p)]_prices

============================================================================
