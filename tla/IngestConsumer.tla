--------------------------- MODULE IngestConsumer ---------------------------
(***************************************************************************)
(* The consumer of the ingest topic (apps/consumer): KafkaConsumerService  *)
(* walks the partition one message at a time, IngestHandlerService turns a *)
(* message into ONE Postgres transaction over four tables, and the offset  *)
(* moves on only when the handler returns.                                 *)
(*                                                                         *)
(* Several consumer processes share the group.  The partition has one      *)
(* owner, but a process that lost it may still be inside the handler: the  *)
(* handler's statements interleave with those of the new owner, and it may *)
(* go through the rest of the batch it fetched before it learns of it.     *)
(*                                                                         *)
(* KafkaJS is external and modelled by the contract the code leans on: a   *)
(* batch whose handler throws is fetched again from the last resolved      *)
(* offset; a process that (re)joins starts at the committed offset, or at  *)
(* the end of the log when the group has none (fromBeginning: false);      *)
(* commitOffsetsIfNecessary decides by itself whether to commit.           *)
(***************************************************************************)
EXTENDS Failures, Sequences, FiniteSets

CONSTANTS
    Sites,          \* site slugs
    Batches,        \* batch_ids
    Codes,          \* emission-point codes
    Instants,       \* recorded_at values
    Loads,          \* the measurement lists a batch may carry
    Heavy,          \* measurements so large that two overflow numeric(18, 6)
    MonthOf,        \* the site-local month of an instant
    Consumers,      \* consumer processes
    MaxLog,         \* bound: messages appended to the partition
    MaxMonth        \* bound: the last month the clock reaches

Nobody == "none"
NoOffset == 0

Measurement == [code : Codes, at : Instants]
Month == 1..MaxMonth

ASSUME ConsumerAssumption ==
    /\ Loads \subseteq Seq(Measurement) \ {<<>>}
    /\ Heavy \subseteq Measurement
    /\ MonthOf \in [Sites \X Instants -> Nat]
    /\ MaxLog \in Nat
    /\ MaxMonth \in Nat \ {0}
    /\ Nobody \notin Consumers

VARIABLES
    log,            \* the partition
    clock,          \* the current month
    siteRows,       \* table sites
    points,         \* table site_emission_points
    measurements,   \* table measurements, by its unique index
    staleMonths,    \* rows of site_monthly_emissions marked stale
    metricsOutbox,  \* table metrics_outbox
    outbox,         \* table outbox
    alerts,         \* table system_alerts, the rows the consumer writes
    owner,          \* the process the group assigned the partition to
    position,       \* the offset the owner resolves next
    committed,      \* the group's committed offset, 0 when it has none
    work,           \* per process: where the handler is
    siteCache,      \* per process: siteIdCache
    pointCache,     \* per process: emissionPointCache
    start,          \* where the group last began without a committed offset (history)
    persisted,      \* offsets whose transaction committed and was seen to (history)
    dropped,        \* offsets acknowledged without a transaction (history)
    failed,         \* offsets whose handler threw (history)
    late            \* rows whose month was over when their message was fetched (history)

tables == <<points, measurements, staleMonths, metricsOutbox, outbox, late>>
group == <<owner, position, committed, start>>
caches == <<siteCache, pointCache>>
outcomes == <<persisted, dropped, failed>>
environment == <<log, clock, siteRows>>
consumerVars == <<environment, tables, alerts, group, work, caches, outcomes, faults>>

\* A message as the API produces it; `Garbage` is anything that is empty, is
\* not JSON, or fails KafkaMessageSchema (a batch has at least one measurement).
Message == [site : Sites, batch : Batches, load : Loads]
Garbage == [site |-> Nobody, batch |-> Nobody, load |-> <<>>]

Point == Sites \X Codes
Key == [batch : Batches, site : Sites, code : Codes, at : Instants]
MetricsRow == [site : Sites, month : Nat, rows : SUBSET Key, tx : Nat]
OutboxRow == [site : Sites, batch : Batches, inserted : SUBSET Key, submitted : Nat]
AlertRow == [type : {"malformed_kafka_message", "unknown_site_in_consumer"}, offset : Nat]
HandlerPC == {"idle", "lookup", "select", "insert", "persist", "resolve"}
Work == [pc : HandlerPC, offset : Nat, last : Nat,
         fetched : Nat, month : Nat, ids : SUBSET Point]
Idle == [pc |-> "idle", offset |-> 0, last |-> 0, fetched |-> 0, month |-> 0, ids |-> {}]

ConsumerTypeOK ==
    /\ log \in Seq(Message \union {Garbage})
    /\ clock \in Month
    /\ siteRows \subseteq Sites
    /\ points \subseteq Point
    /\ measurements \subseteq Key
    /\ staleMonths \subseteq Sites \X Nat
    /\ metricsOutbox \subseteq MetricsRow
    /\ outbox \in Seq(OutboxRow)
    /\ alerts \subseteq AlertRow
    /\ owner \in Consumers \union {Nobody}
    /\ position \in Nat \ {0}
    /\ committed \in Nat
    /\ work \in [Consumers -> Work]
    /\ siteCache \in [Consumers -> SUBSET Sites]
    /\ pointCache \in [Consumers -> SUBSET Point]
    /\ start \in Nat \ {0}
    /\ persisted \subseteq Nat
    /\ dropped \subseteq Nat
    /\ failed \subseteq Nat
    /\ late \subseteq Key
    /\ faults \in Nat

\* What the consumer's own processes and tables start from.
ConsumerInit ==
    /\ points = {} /\ measurements = {} /\ staleMonths = {}
    /\ metricsOutbox = {} /\ outbox = <<>> /\ alerts = {}
    /\ owner = Nobody /\ position = 1 /\ committed = NoOffset /\ start = 1
    /\ work = [c \in Consumers |-> Idle]
    /\ siteCache = [c \in Consumers |-> {}]
    /\ pointCache = [c \in Consumers |-> {}]
    /\ persisted = {} /\ dropped = {} /\ failed = {} /\ late = {}

-----------------------------------------------------------------------------
(* Vocabulary.                                                             *)

At(c, pc) == work[c].pc = pc
Goto(c, pc) == work' = [work EXCEPT ![c].pc = pc]
Current(c) == log[work[c].offset]

Items(m) == {m.load[i] : i \in DOMAIN m.load}
KeyOf(m, x) == [batch |-> m.batch, site |-> m.site, code |-> x.code, at |-> x.at]
KeysOf(m) == {KeyOf(m, x) : x \in Items(m)}
KeyMonth(k) == MonthOf[<<k.site, k.at>>]
CellOf(k) == <<k.site, KeyMonth(k)>>

\* The emission points the current message of c names.
Wanted(c) == {<<Current(c).site, x.code>> : x \in Items(Current(c))}
Unresolved(c) == Wanted(c) \ work[c].ids

\* Mutant of Throws: eachBatch catches the error and resolves the offset.
ThrowsSwallowed(c) ==
    /\ work' = [work EXCEPT ![c].pc = "resolve"]
    /\ failed' = failed \union {work[c].offset}
    /\ UNCHANGED <<persisted, dropped>>

\* The handler throws: eachBatch rethrows, the offset is not resolved, and the
\* owner will fetch the message again.
Throws(c) ==
    /\ work' = [work EXCEPT ![c] = Idle]
    /\ failed' = failed \union {work[c].offset}
    /\ UNCHANGED <<persisted, dropped>>

\* The handler throws because a statement before the transaction did.
StatementThrows(c) == Fault("db") /\ Throws(c)

\* SystemAlertsService.insertAlert swallows the failure of its own INSERT.
InsertAlert(c, type) ==
    \/ /\ alerts' = alerts \union {[type |-> type, offset |-> work[c].offset]}
       /\ UNCHANGED faults
    \/ Fault("db") /\ UNCHANGED alerts

-----------------------------------------------------------------------------
(* processMessage, and handle up to the transaction.                       *)

\* One message of a fetched batch whose last offset is `last`.
Handling(offset, last) ==
    [pc |-> "lookup", offset |-> offset, last |-> last,
     fetched |-> clock, month |-> 0, ids |-> {}]

Fetch(c) ==
    /\ owner = c /\ At(c, "idle")
    /\ position \in DOMAIN log
    /\ work' = [work EXCEPT ![c] = Handling(position, Len(log))]
    /\ UNCHANGED <<environment, tables, alerts, group, caches, outcomes, faults>>

\* Empty, not JSON, or not a batch: alert, and the message counts as done.
Reject(c) ==
    /\ At(c, "lookup") /\ Current(c) = Garbage
    /\ InsertAlert(c, "malformed_kafka_message")
    /\ Goto(c, "resolve")
    /\ dropped' = dropped \union {work[c].offset}
    /\ UNCHANGED <<environment, tables, group, caches, persisted, failed>>

\* Mutant of UnknownSite: a site that is not cached counts as unknown.
UnknownSiteUncached(c) ==
    /\ At(c, "lookup") /\ Current(c) # Garbage
    /\ Current(c).site \notin siteCache[c]
    /\ InsertAlert(c, "unknown_site_in_consumer")
    /\ Goto(c, "resolve")
    /\ dropped' = dropped \union {work[c].offset}
    /\ UNCHANGED <<environment, tables, group, caches, persisted, failed>>

\* The site has no committed row: alert, and the message counts as done.
UnknownSite(c) ==
    LET site == Current(c).site IN
    /\ At(c, "lookup") /\ Current(c) # Garbage
    /\ site \notin siteCache[c] \union siteRows
    /\ InsertAlert(c, "unknown_site_in_consumer")
    /\ Goto(c, "resolve")
    /\ dropped' = dropped \union {work[c].offset}
    /\ UNCHANGED <<environment, tables, group, caches, persisted, failed>>

\* Mutant of FindSite: the current month is captured only when the site is
\* looked up, not when it comes from the cache.
FindSiteMonthCached(c) ==
    LET site == Current(c).site IN
    /\ At(c, "lookup") /\ Current(c) # Garbage
    /\ site \in siteCache[c] \union siteRows
    /\ siteCache' = [siteCache EXCEPT ![c] = @ \union {site}]
    /\ work' = [work EXCEPT ![c].pc = "select",
                            ![c].month = IF site \in siteCache[c] THEN 1 ELSE clock]
    /\ UNCHANGED <<environment, tables, alerts, group, pointCache, outcomes, faults>>

\* The site is cached or found, and "now" is captured for the whole batch.
FindSite(c) ==
    LET site == Current(c).site IN
    /\ At(c, "lookup") /\ Current(c) # Garbage
    /\ site \in siteCache[c] \union siteRows
    /\ siteCache' = [siteCache EXCEPT ![c] = @ \union {site}]
    /\ work' = [work EXCEPT ![c].pc = "select", ![c].month = clock]
    /\ UNCHANGED <<environment, tables, alerts, group, pointCache, outcomes, faults>>

FindSiteThrows(c) ==
    /\ At(c, "lookup") /\ Current(c) # Garbage
    /\ Current(c).site \notin siteCache[c]
    /\ StatementThrows(c)
    /\ UNCHANGED <<environment, tables, alerts, group, caches>>

\* resolveEmissionPoints, the cache and the batched SELECT (skipped when the
\* cache has every code).
SelectPoints(c) ==
    LET found == Wanted(c) \intersect (pointCache[c] \union points) IN
    /\ At(c, "select")
    /\ pointCache' = [pointCache EXCEPT ![c] = @ \union found]
    /\ work' = [work EXCEPT ![c].ids = found,
                            ![c].pc = IF found = Wanted(c) THEN "persist" ELSE "insert"]
    /\ UNCHANGED <<environment, tables, alerts, group, siteCache, outcomes, faults>>

SelectPointsThrows(c) ==
    /\ At(c, "select")
    /\ ~ Wanted(c) \subseteq pointCache[c]
    /\ StatementThrows(c)
    /\ UNCHANGED <<environment, tables, alerts, group, caches>>

\* INSERT ... ON CONFLICT DO NOTHING RETURNING: only the codes this statement
\* created come back.  A code that a sibling created since the SELECT does not,
\* and nothing reads it again.
InsertPoints(c) ==
    LET returned == Unresolved(c) \ points IN
    /\ At(c, "insert")
    /\ points' = points \union returned
    /\ pointCache' = [pointCache EXCEPT ![c] = @ \union returned]
    /\ work' = [work EXCEPT ![c].ids = @ \union returned, ![c].pc = "persist"]
    /\ UNCHANGED <<measurements, staleMonths, metricsOutbox, outbox, late>>
    /\ UNCHANGED <<environment, alerts, group, siteCache, outcomes, faults>>

\* Mutant of InsertPointsThrows: the codes are cached before the INSERT runs.
InsertPointsCachedFirst(c) ==
    /\ At(c, "insert")
    /\ StatementThrows(c)
    /\ pointCache' = [pointCache EXCEPT ![c] = @ \union Unresolved(c)]
    /\ UNCHANGED tables
    /\ UNCHANGED <<environment, alerts, group, siteCache>>

\* The statement throws, before or after it took effect.
InsertPointsThrows(c) ==
    /\ At(c, "insert")
    /\ StatementThrows(c)
    /\ points' \in {points, points \union Unresolved(c)}
    /\ UNCHANGED <<measurements, staleMonths, metricsOutbox, outbox, late>>
    /\ UNCHANGED <<environment, alerts, group, caches>>

-----------------------------------------------------------------------------
(* The transaction.                                                        *)

\* Mutant of Fresh: the submitted rows are taken for the inserted ones.
FreshAsSubmitted(c) == KeysOf(Current(c))

\* Mutant of Fresh: the unique index lacks recorded_at.
FreshByPoint(c) ==
    {k \in KeysOf(Current(c)) :
        \A l \in measurements : <<l.batch, l.site, l.code>> # <<k.batch, k.site, k.code>>}

\* The rows INSERT ... ON CONFLICT DO NOTHING RETURNING gives back: a key that
\* the table has, or that comes twice in the list, is inserted once.
Fresh(c) == KeysOf(Current(c)) \ measurements

\* markMonthsStale: the months strictly before the captured one.
LateKeys(c) == {k \in Fresh(c) : KeyMonth(k) < work[c].month}
MarkMonthsStale(c) ==
    staleMonths' = staleMonths \union {<<k.site, KeyMonth(k)>> : k \in LateKeys(c)}

\* writeMetricsOutbox: one row per month of the inserted rows.  A delta is kept
\* as the set of rows it sums, with the number of its transaction's outbox row.
DeltaRow(c, month) ==
    [site |-> Current(c).site, month |-> month,
     rows |-> {k \in Fresh(c) : KeyMonth(k) = month}, tx |-> Len(outbox) + 1]

\* Mutant of WriteMetricsOutbox: a delta sums the submitted rows of the month.
WriteMetricsOutboxAsSubmitted(c) ==
    metricsOutbox' = metricsOutbox \union
        {[DeltaRow(c, KeyMonth(k)) EXCEPT
             !.rows = {l \in KeysOf(Current(c)) : KeyMonth(l) = KeyMonth(k)}] : k \in Fresh(c)}

WriteMetricsOutbox(c) ==
    metricsOutbox' = metricsOutbox \union {DeltaRow(c, KeyMonth(k)) : k \in Fresh(c)}

\* A value has at most 12 integer digits (NumericKgSchema), and so has the column
\* delta_kg: a sum of two large values does not fit, and the INSERT throws.
Overflows(rows) ==
    \E k, l \in rows :
        /\ k # l
        /\ [code |-> k.code, at |-> k.at] \in Heavy
        /\ [code |-> l.code, at |-> l.at] \in Heavy
DeltasFit(c) ==
    \A k \in Fresh(c) : ~ Overflows(DeltaRow(c, KeyMonth(k)).rows)

\* The outbox row is written even when nothing was inserted.
WriteOutbox(c) ==
    outbox' = Append(outbox, [site |-> Current(c).site, batch |-> Current(c).batch,
                              inserted |-> Fresh(c), submitted |-> Len(Current(c).load)])

Commit(c) ==
    /\ measurements' = measurements \union Fresh(c)
    /\ MarkMonthsStale(c)
    /\ WriteMetricsOutbox(c)
    /\ WriteOutbox(c)
    /\ late' = late \union {k \in Fresh(c) : KeyMonth(k) < work[c].fetched}
    /\ UNCHANGED points

Persist(c) ==
    /\ At(c, "persist") /\ Unresolved(c) = {} /\ DeltasFit(c)
    /\ Commit(c)
    /\ Goto(c, "resolve")
    /\ persisted' = persisted \union {work[c].offset}
    /\ UNCHANGED <<environment, alerts, group, caches, dropped, failed, faults>>

\* "emission point not resolved for code": nothing is written.
PersistUnresolved(c) ==
    /\ At(c, "persist") /\ Unresolved(c) # {}
    /\ Throws(c)
    /\ UNCHANGED <<environment, tables, alerts, group, caches, faults>>

\* "numeric field overflow": rolled back, now and at every retry.
PersistOverflows(c) ==
    /\ At(c, "persist") /\ Unresolved(c) = {} /\ ~ DeltasFit(c)
    /\ Throws(c)
    /\ UNCHANGED <<environment, tables, alerts, group, caches, faults>>

\* Mutant of PersistThrows: the INSERT into measurements is not in the transaction.
PersistThrowsHalfway(c) ==
    /\ At(c, "persist") /\ Unresolved(c) = {}
    /\ Fault("commit") /\ Throws(c)
    /\ measurements' = measurements \union Fresh(c)
    /\ UNCHANGED <<points, staleMonths, metricsOutbox, outbox, late>>
    /\ UNCHANGED <<environment, alerts, group, caches>>

\* A statement or the COMMIT throws: all or nothing was written.
PersistThrows(c) ==
    /\ At(c, "persist") /\ Unresolved(c) = {}
    /\ Fault("commit") /\ Throws(c)
    /\ (DeltasFit(c) /\ Commit(c)) \/ UNCHANGED tables
    /\ UNCHANGED <<environment, alerts, group, caches>>

-----------------------------------------------------------------------------
(* Offsets, and the consumer group.                                        *)

\* Mutant of ResolveOffset: a process that lost the partition commits as well.
ResolveOffsetAnyway(c) ==
    /\ At(c, "resolve")
    /\ position' = work[c].offset + 1
    /\ committed' \in {committed, position'}
    /\ work' = [work EXCEPT ![c] = Idle]
    /\ UNCHANGED <<environment, tables, alerts, owner, start, caches, outcomes, faults>>

\* resolveOffset, heartbeat, commitOffsetsIfNecessary, in the owner.
ResolveOffset(c) ==
    /\ At(c, "resolve") /\ owner = c
    /\ position' = work[c].offset + 1
    /\ committed' \in {committed, position'}
    /\ work' = [work EXCEPT ![c] = Idle]
    /\ UNCHANGED <<environment, tables, alerts, owner, start, caches, outcomes, faults>>

\* A process that lost the partition: the heartbeat throws, and whatever it
\* resolved was its own copy of the offset.
HeartbeatThrows(c) ==
    /\ At(c, "resolve") /\ owner # c
    /\ work' = [work EXCEPT ![c] = Idle]
    /\ UNCHANGED <<environment, tables, alerts, group, caches, outcomes, faults>>

\* heartbeat() asks the group only once per heartbeatInterval: until then such a
\* process goes on with the next message of the batch it fetched as the owner.
GoesOn(c) ==
    /\ At(c, "resolve") /\ owner # c
    /\ work[c].offset < work[c].last
    /\ work' = [work EXCEPT ![c] = Handling(work[c].offset + 1, work[c].last)]
    /\ UNCHANGED <<environment, tables, alerts, group, caches, outcomes, faults>>

\* Mutant of Assign: having no committed offset is taken for an offset.
AssignAtNoOffset(c) ==
    /\ At(c, "idle")
    /\ owner' = c
    /\ position' = committed
    /\ UNCHANGED <<environment, tables, alerts, committed, start, work, caches, outcomes>>

\* The group gives the partition to an idle process.
Assign(c) ==
    /\ At(c, "idle")
    /\ owner' = c
    /\ IF committed # NoOffset
       THEN position' = committed /\ UNCHANGED start
       ELSE position' = Len(log) + 1 /\ start' = Len(log) + 1
    /\ UNCHANGED <<environment, tables, alerts, committed, work, caches, outcomes>>

Join(c) == owner = Nobody /\ Assign(c) /\ UNCHANGED faults

\* The group takes it from its owner (a session timeout, a new member), or the
\* owner itself rejoins when KafkaJS gave up retrying a batch.
Rebalance(c) == owner # Nobody /\ Fault("rebalance") /\ Assign(c)

\* The process dies, wherever it is, and comes back with empty caches.
Crash(c) ==
    /\ Fault("crash")
    /\ work' = [work EXCEPT ![c] = Idle]
    /\ siteCache' = [siteCache EXCEPT ![c] = {}]
    /\ pointCache' = [pointCache EXCEPT ![c] = {}]
    /\ owner' = IF owner = c THEN Nobody ELSE owner
    /\ UNCHANGED <<environment, tables, alerts, position, committed, start, outcomes>>

ConsumerStep(c) ==
    \/ Fetch(c) \/ Reject(c) \/ UnknownSite(c) \/ FindSite(c)
    \/ SelectPoints(c) \/ InsertPoints(c)
    \/ Persist(c) \/ PersistUnresolved(c) \/ PersistOverflows(c)
    \/ ResolveOffset(c) \/ HeartbeatThrows(c) \/ GoesOn(c)
    \/ Join(c)

ConsumerFault(c) ==
    \/ FindSiteThrows(c) \/ SelectPointsThrows(c) \/ InsertPointsThrows(c)
    \/ PersistThrows(c) \/ Rebalance(c) \/ Crash(c)

ConsumerNext == \E c \in Consumers : ConsumerStep(c) \/ ConsumerFault(c)

-----------------------------------------------------------------------------
(* The component on its own: anything may be appended, sites may be        *)
(* created, and months pass.                                               *)

Init ==
    /\ ConsumerInit
    /\ log = <<>> /\ clock = 1 /\ faults = 0
    /\ siteRows \in SUBSET Sites

AppendMessage ==
    /\ Len(log) < MaxLog
    /\ \E m \in Message \union {Garbage} : log' = Append(log, m)
    /\ UNCHANGED <<clock, siteRows>>

CreateSite ==
    /\ \E s \in Sites \ siteRows : siteRows' = siteRows \union {s}
    /\ UNCHANGED <<log, clock>>

MonthPasses ==
    /\ clock < MaxMonth
    /\ clock' = clock + 1
    /\ UNCHANGED <<log, siteRows>>

EnvironmentNext ==
    /\ AppendMessage \/ CreateSite \/ MonthPasses
    /\ UNCHANGED <<tables, alerts, group, work, caches, outcomes, faults>>

Next == ConsumerNext \/ EnvironmentNext

Spec == Init /\ [][Next]_consumerVars

\* A process keeps taking its next step, and the group always finds an owner.
Fairness == \A c \in Consumers : WF_consumerVars(ConsumerStep(c))
FairSpec == Spec /\ Fairness

-----------------------------------------------------------------------------
(* Properties.                                                             *)

InsertedBy(i) == outbox[i].inserted
Settled == persisted \union dropped

\* Business events count every stored measurement in exactly one outbox row,
\* however often a batch was copied, replayed or handled by two processes at
\* once: the sum of measurements_inserted is the size of the table.
OutboxCountsOnce ==
    /\ measurements = UNION {InsertedBy(i) : i \in DOMAIN outbox}
    /\ \A i, j \in DOMAIN outbox : i # j => InsertedBy(i) \intersect InsertedBy(j) = {}

\* The deltas the metrics relay will add up sum every stored measurement in
\* exactly one row, and in the row of its own site and month.
DeltasCountOnce ==
    /\ measurements = UNION {r.rows : r \in metricsOutbox}
    /\ \A r, q \in metricsOutbox : r # q => r.rows \intersect q.rows = {}
    /\ \A r \in metricsOutbox : \A k \in r.rows :
           k.site = r.site /\ KeyMonth(k) = r.month

\* The consumer implements the ledger: every step of the processes counts one
\* whole batch in all three places, or changes none of them.
Ledger == INSTANCE EmissionsLedger WITH
    offered <- {log[i] : i \in DOMAIN log},
    counted <- measurements,
    reported <- UNION {{<<k, <<r.site, r.month>>>> : k \in r.rows} : r \in metricsOutbox},
    announced <- UNION {InsertedBy(i) : i \in DOMAIN outbox}
LedgerSpec == Ledger!LedgerSpec

\* A measurement stored for a month that was already over when its message was
\* fetched leaves the monthly total of that month marked for recomputation,
\* whichever attempt stored it and whatever was cached before.
LateRowsAreStale ==
    \A k \in late : k \in measurements /\ <<k.site, KeyMonth(k)>> \in staleMonths

\* A stored measurement names an emission point that exists: the ids resolved
\* before the transaction are valid inside it (the foreign key never fails).
PointsExist ==
    \A k \in measurements : <<k.site, k.code>> \in points

\* No message between the offset the group started from and the offset it will
\* read next, or would restart from, is skipped; redelivery, a handover in the
\* middle of a batch and a late answer of the previous owner included.
NothingSkippedSinceStart ==
    /\ start..(position - 1) \subseteq Settled
    /\ committed # NoOffset => start..(committed - 1) \subseteq Settled

\* A message that counts as persisted has all its measurements in the table,
\* even when the transaction that stored them was an earlier attempt's.
PersistedIsStored ==
    \A i \in persisted : KeysOf(log[i]) \subseteq measurements

\* The group never moves its committed offset backwards, so that a restart
\* never replays more than the last assignment did.
CommittedNeverRegresses == [][committed' >= committed]_consumerVars

\* A batch with two values that no column of one month's delta can sum.
Poison(m) ==
    /\ m # Garbage
    /\ \E k \in KeysOf(m) : Overflows({l \in KeysOf(m) : CellOf(l) = CellOf(k)})

\* kafka-consumer.service.ts:28: "A poison message does not block subsequent
\* messages".  Another batch, no poison itself, that stands behind a poison one is
\* stored, or given up with an alert, all the same (or is behind the offset that a
\* restart without a commit began from).
PoisonDoesNotBlock ==
    \A i \in 1..MaxLog : \A j \in (i + 1)..MaxLog :
        /\ i >= start /\ j \in DOMAIN log
        /\ log[j] # Garbage /\ log[j].batch # log[i].batch
        /\ Poison(log[i]) /\ ~ Poison(log[j])
        ~> j \in Settled \/ j < start

\* ingest-handler.service.ts:157: "Should never happen: resolveEmissionPoints
\* guarantees all codes are mapped".
EveryCodeIsResolved ==
    \A c \in Consumers : At(c, "persist") => Unresolved(c) = {}

\* kafka-consumer.service.ts:31: "If the DB commit fails the offset is not
\* committed - KafkaJS replays the message on the next poll".
FailedIsReplayed ==
    \A i \in failed : i \in Settled \/ owner = Nobody \/ i >= position

=============================================================================
