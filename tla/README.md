# Verification of the emissions platform

TLA+ models of the services and the web application of this repository, the TLC
configurations that check them on small instances, and TLAPS proofs, for every
instance, of every safety property those runs check and of the three refinements. Every definition is translated from the TypeScript,
the Lua scripts and the Drizzle schema; `PROJECT.json` maps each one to the lines it stands for.
Paths below are relative to the repository root.

## 1. The system

| Component | State it keeps | Operations | Interacts with |
|---|---|---|---|
| Site creation, boot warm-up (`apps/api/src/sites/sites.service.ts`, `apps/api/src/bootstrap/bootstrap.service.ts`) | table `sites`; Redis set `sites:valid` | `POST /sites` (INSERT + SADD inside one transaction), warm-up at boot (SELECT, SADD) | the set is the authority for `POST /ingest` |
| Ingest endpoint (`apps/api/src/ingest`, `apps/api/src/redis`, `apps/api/src/kafka`) | Redis hashes `ingest:dedupe:<slug>`; the topic | site check, claim (Lua `HSETNX` + `HEXPIRE`), produce, revert | Redis, Postgres as a fallback, Kafka |
| Consumer (`apps/consumer/src`) | `measurements`, `site_emission_points`, `site_monthly_emissions.stale`, `metrics_outbox`, `outbox`, `system_alerts`; two in-memory caches; the group's offsets | `processMessage`, `handle` (lookups, point resolution, one transaction), resolve/heartbeat/commit of offsets | Kafka group, Postgres |
| Outbox relay (`apps/outbox-relay`) | `outbox.delivered_at/attempts/available_at` | polling tick: lock, POST, mark or back off, freeze | alert receiver |
| Alert receiver (`apps/alerting`) | bounded in-memory dedupe store | `POST /alerts/business`, `/alerts/system` | both relays |
| System-alerts relay (`apps/system-alerts`) | `system_alerts.*` delivery columns | as the outbox relay | alert receiver |
| Metrics relay (`apps/metrics-relay`) | Redis `site:metrics:*` hash and guard keys; `metrics_outbox.delivered_at` | guarded `HINCRBYFLOAT` per delta | Redis, Postgres |
| Metrics and site reads (`apps/api/src/sites`) | none | live + historical totals, cursor pages | Postgres |
| Web form, API client (`apps/web`) | form state with its `batch_id` | submit, retry, edit | the API |
| ETL (`apps/etl`) | none: a placeholder | - | - |
| Contracts, schema (`packages`) | declarations | - | everything |

What is hard here, and what correctness means, part by part:

- **Sites.** One logical fact (a site exists) is stored in two systems that share
  no transaction. SADD precedes COMMIT; either may fail; the warm-up writes back
  what it read earlier. Correct: a committed site is never missing from the set
  unless Redis lost it, and the opposite discrepancy (an advertised slug
  without a row) is confined to creations that are open or failed.
- **Endpoint.** Two stores again (Redis claim, Kafka record) with a hand-written
  compensation, concurrent retries of one batch, ambiguous failures of both
  calls. Correct: a claim stands for a batch that is or will be in the topic, and
  extra copies in the topic are few and accounted for.
- **Consumer.** At-least-once delivery, handovers during a handler, statements
  outside the transaction, caches, a clock read before the transaction that uses
  it. Correct: every measurement is counted exactly once in three tables at once,
  nothing between the group's offsets is skipped, closed months become stale.
- **Relays and receiver.** One transaction over many POSTs, at-least-once
  delivery into a bounded dedupe store, backoff and freeze, SKIP LOCKED
  replicas. Correct: nothing is called delivered that did not arrive, every send
  is accounted for, repeats are suppressed while the store remembers, an exhausted
  row never goes unreported, and every row is delivered in the end.
- **Metrics.** Two-system update guarded by an expiring key; a read that is not a
  snapshot while batches commit and the month ends. Correct: a delta is added once
  while its guard lives; the read answers a total the site could have had.
- **Lists and forms.** Ids that appear out of order under a cursor; answers that
  are lost, spoilt or late; a `batch_id` kept across retries and edits. Correct:
  an entry is accepted once and the user is told the truth.

`PROJECT.json` lists 40 hazards, each at its line with the properties that would
catch it going wrong, or the reason why none does. Where a property names an outcome
as its exception, the hazard of that outcome is listed as not covered: an
exception admits, it does not catch.

## 2. Modules

| Module | Models | Used by |
|---|---|---|
| `Failures` | a budget: which kinds of failure an instance has, and at most how many | all |
| `SiteRegistry` | `SitesService.create`, `warmSitesCache`, Redis losing members | `IngestEdge` |
| `IngestEdge` | `IngestController`, `IngestService.ingest`, `assertSiteValid`, `assertSiteValidViaDb`, `revertDedupe`, `batch-dedupe.lua`, the producer's contract | `IngestPipeline` |
| `IngestConsumer` | `KafkaConsumerService`, `IngestHandlerService`, `SystemAlertsService` and the tables they write | `IngestPipeline`, proofs |
| `EmissionsLedger` | abstract: batches are offered any number of times, each measurement is counted once, in three places at the same instant | refined by the two above |
| `IngestPipeline` | endpoint and consumer over one topic and one `sites` table | - |
| `RelaySettings`, `RelayTable` | the polling loop the three relay services share: tick, send, commit, rollback, backoff and freeze of a row | the three relays (INSTANCE per table) |
| `AlertReceiver` | `AlertsController`, `AlertsService`, `DedupStore` | `OutboxRelay`, `SystemAlertsRelay` |
| `OutboxRelay`, `MetricsRelay`, `SystemAlertsRelay` | each relay's table, its sends and what its failures leave | `Relays` |
| `Delivery` | abstract: what is published is received before it is settled | refined by `Relays` |
| `Relays` | the three relays and the receiver over one database | - |
| `Envelope` | the exception filter's status, `apiFetch`, and which errors may be retried | the modules below |
| `IngestForm` | `IngestForm.tsx` and its `batch_id` against `POST /ingest` | `Console` |
| `SitesListing`, `CreateSiteForm` | `GET /sites` by cursor, the table that walks it, and the form that creates sites meanwhile | `Console` |
| `MetricsRead` | `getSiteMetrics` statement by statement, the row that polls it, and the writers beside it | `Console` |
| `Console` | one page of the web application per behaviour | - |
| `MC*` | small instances | TLC |
| `SiteRegistryProofs`, `IngestEdgeProofs`, `IngestConsumerProofs` | theorems about the module of that name | the last two by `IngestPipelineProofs`, the first by `IngestEdgeProofs` |
| `IngestPipelineProofs` | theorems about endpoint and consumer together | - |
| `RelayTableProofs`, `AlertReceiverProofs` | lemmas about one polled table, and about the receiver's memory | `RelaysProofs` |
| `RelaysProofs`, `ConsoleProofs` | theorems about the composition of that name | - |

### SiteRegistry

`siteRows` are the committed rows of `sites`, `sitesValid` is the Redis set.
`create[c].pc` is where a `POST /sites` is: `sadd` after the INSERT returned,
`commit` after the SADD returned. The unique index on `slug` is in
`CreateInsert`: the statement waits while another transaction holds the slug
(`Inserting(slug) = {}`), and fails with `conflict` when a row has it. Both ways a
SADD or a COMMIT can fail are there: with and without having taken effect.
`boot[a]` is the warm-up of an API process, SELECT and SADD being two steps;
`cold` is a process whose warm-up threw and which serves nevertheless
(`bootstrap.service.ts:50`). `Reboot` is a crash: open transactions roll back,
except a COMMIT that was already received. `lost` is a history variable: what
Redis dropped since it was last added.

### IngestEdge

`req[r].pc` names the call a request is about to await: `check` (SISMEMBER),
`fallback` (the SELECT taken only when SISMEMBER threw), `dedupe`
(`batchDedupe`), `produce` (`producer.send`), `revert` (HDEL after a failed send).
The terminal values are the four answers, plus `dropped` for a request whose
process died. The script is atomic, so a claim is one step; it may also throw
before or after running (`ClaimThrows`, treated as a first sight,
`ingest.service.ts:37`) or be sent twice by the client library
(`ClaimResent`, `maxRetriesPerRequest: 3`). `ProduceThrows` may have appended.
`RebootEdge` kills a process with its requests, one produce of which may still
reach the broker. The payload is opaque (`Loads`) until the pipeline composes
it. `orphaned` and `excuses` are history: the claims whose holder is gone, and
the faults that can let a copy through.

### IngestConsumer

One action per statement the handler awaits:

| Action | Code |
|---|---|
| `Fetch`, `ResolveOffset`, `HeartbeatThrows`, `GoesOn` | the `eachBatch` loop, `kafka-consumer.service.ts:82-107` |
| `Reject` | the three malformed-message exits of `processMessage` |
| `UnknownSite`, `FindSite`, `FindSiteThrows` | site lookup through `siteIdCache`, and the capture of "now" |
| `SelectPoints`, `InsertPoints`, `...Throws` | `resolveEmissionPoints` |
| `Persist`, `PersistThrows` | the transaction: measurements, `markMonthsStale`, `writeMetricsOutbox`, `outbox` |
| `PersistUnresolved`, `PersistOverflows` | the two ways the transaction throws deterministically |
| `Join`, `Rebalance`, `Crash` | the group and the process, external |

A stored row is its unique-index key `(batch_id, emission_point, recorded_at)`
with the site the point belongs to. A delta is kept as the *set of rows it
sums*, so "counted once" is disjointness and needs no arithmetic; its value
matters in one place, the width of `delta_kg numeric(18, 6)`, which `Heavy`
abstracts: two heavy values in one month and site do not fit. `MonthOf` is the
site-local month of an instant, an arbitrary function. The clock is a month
number; `work[c].month` is the captured "now", `work[c].fetched` (history) the
month in which the message was fetched.

A process that lost the partition may be anywhere inside the handler: its
statements interleave with those of the new owner. At its late resolve the heartbeat
throws (`HeartbeatThrows`); or KafkaJS, which asks the group only once per
`heartbeatInterval`, does not notice yet, and the process goes on with the next
message of the batch it had fetched (`GoesOn`; `last` is where that batch ends).

KafkaJS is outside the repository and modelled by the contract the code leans
on: a batch whose handler throws is fetched again from the last resolved offset;
a process that joins starts from the committed offset, or from the end of the
topic when there is none (`fromBeginning: false`, line 79);
`commitOffsetsIfNecessary` commits or does not.

### IngestPipeline and EmissionsLedger

The pipeline shares `log` and `siteRows` between the two components and gives
`Loads` its meaning. Each component leaves the other's variables alone, as the
processes do; the fault budget is common, and a step of the consumer spends it as
`IngestConsumer` says. `PipelineAssumption` is the consumer's assumption, its topic
being a variable here, and that no site has the name the model gives to nobody. `EmissionsLedger` has two actions: `Offer`, and `Count`, which takes
one offered batch and adds all its uncounted measurements to the counted, the
reported (with site and month) and the announced ones in one step. The consumer
implements it with the log as the offers (`LedgerSpec`); the pipeline implements
it with the *requests* as the offers (`EndToEndLedger`), which also says that
nothing is counted that no client submitted.

### RelayTable and the three relays

The services repeat one loop, so it is one module, instantiated once per table:

| Action | Code (as in `outbox-relay.service.ts`; the other two repeat it) |
|---|---|
| `Tick` | the `SELECT ... FOR UPDATE SKIP LOCKED LIMIT n` that opens the transaction; `running` keeps a process to one tick |
| `Sent(w, r, answer)` | one row of the `for` loop: the POST or the script, and which way the try/catch went |
| `Commit` | every UPDATE of the tick takes effect: `delivered_at`, or `attempts` and `available_at`; `OutboxCommits` and `MetricsCommits` add the INSERTs into `system_alerts` of the exhausted rows |
| `Rollback` | a failing statement or COMMIT, a lost session, or the process dying, anywhere in the tick; `flying` is the row whose request is on its way out at that moment: its lock is gone at once, and another replica may send the row too |
| `Elapse` | time |

A row is `[attempts, wait, delivered]`. `wait` counts `available_at - now()` down,
in units that are long beside a transaction, so time passes only while no
transaction is open. Rows that are due are taken in any order, which allows every
order that `ORDER BY available_at` gives. A failed UPDATE in the middle of a tick
aborts the transaction (PostgreSQL refuses what follows), hence it is the same as
a `Rollback`.

A POST whose answer is lost may arrive before the relay gives it up, later, or
never: `mail` and `pages` hold them, `MailArrives` and `PageArrives` deliver them.
The script of the metrics relay takes effect before or after Redis throws.
`guard[r]` is what is left of the life of a guard key; a row outlives its key when it
keeps failing, which `lapsed` (history) counts. `sent` and `undone` are history.

The receiver keeps `keys`, oldest first. `EvictCount` is the tenth that goes when
the store is full, `RestartReceiver` empties it, and `forgotten` (history) counts
what is gone. Handlers run on one thread, so each is a step. The key has the
batch and the event type; the latter has one value in this system. `logged` (history)
holds the lines `handleBusiness` writes about events that counted rows, `delivered` or
`duplicate`, each with its event and the memory of the batch it fell into: that is
what "announced" means in `DeliveredWasRaised`.

### Envelope, IngestForm

`Result(outcome, fate)` composes the exception filter with `apiFetch`: what a
handler ended with, and what became of the answer on its way (whole, lost, no
JSON, JSON of another shape), give data, a retryable error, or a refusal.

`form` is the React state, with the payload ref as `pending`; `calls` are the
POSTs, handled by the API at any time, also when the form awaits them no longer
(`StartOver` keeps awaiting, `Reload` does not). A draft stands for the fields;
`Blank` is a draft that does not validate. The API is `IngestService.ingest`, coarser
than `IngestEdge` has it: a POST is turned away (`TurnsAway`), claims its `batch_id` in
the hash of its site (`SeesFirst`, a throwing Redis included), or finds it claimed and
is answered 202 at once (`SeesDuplicate`, `SeesItself` for a script the client library
sent twice), whatever becomes of the POST that made the claim; that one produces
(`Produces`), or fails with the claim given back or left behind (`ProduceFails`).
`ClaimForgotten` is the field's TTL. `holders` are the POSTs that made a claim or went
on without one. `lapses` (history) records what a user did that the design does not
cover: a reset while an answer is awaited or a payload's fate unknown, an edit under a
`batch_id` already sent.

### SitesListing, CreateSiteForm

`rows` are the INSERTs in id order with their state, since a sequence gives the id
at INSERT and COMMIT makes it visible: `open` rows become `live` or `gone` in any
order. `ListRead` is the one SELECT, with its lookahead row; `Selected` says what
WHERE, ORDER BY and LIMIT select rather than how, which is what the proof needs of it; `walk` is the state of
`SitesTable.tsx`, and `fetches` are the GETs. `CreateSiteForm` adds the form and,
coarser than `SiteRegistry`, what the service does with its POSTs; what the form
says is derived in `Told` from the answer as `handleSubmit` does.

### MetricsRead

A poll is `Begins` (BEGIN, which fixes `now()` and with it the month), `ReadPrior`
(closed months, the stale ones computed anew) and `ReadCurrent`, each with its own
snapshot as READ COMMITTED gives it, then the answer. Beside it run the consumer
(`BatchCaptured` before its transaction, `BatchCommitted`, as in
`IngestConsumer`), the calendar (`MonthEnds`), and the ETL, which is external:
the repository holds a placeholder, so it is modelled by what the schema and the
read expect of it, a row with the month's total, not stale. A batch is one kg,
since sums of decimals are plain additions, and a SUM over months counts their
kilograms (`SumOver`), which makes sums of sets comparable by inclusion; `MaxWire` is the twelve integer digits
the response schema admits. Nothing in the repository reads the counters the
metrics relay keeps in Redis, so the two meet nowhere.

### Console

The three pages share no state in the browser, and no table beyond the sites of which
the ingest form only asks whether there are any (`LoadSites`), so a behaviour watches one of them (`watch`) instead of multiplying
them. `Failures` bounds what goes wrong on the page.

## 3. Runs

| Run | Asks | Instance |
|---|---|---|
| `sites` | do the table and the set stay coherent? `RowsAreAdvertised`, `PhantomsComeFromCreations`, `OneCreationPerSlug`, `OpenCreationHasNoRow` | 2 slugs, one seeded; 3 creations; 2 processes; 3 failures of 4 kinds |
| `edge` | what is a claim worth, how many copies reach the topic, for which sites? `ClaimsAreBacked`, `CopiesAreExcused`, `LoggedSitesAreKnown` | 1 new site and its creation; 3 requests for one batch; 2 processes; 3 failures of 7 kinds |
| `consumer` | exactly-once counting, staleness, foreign keys, offsets, refinement of the ledger | 2 processes; any 2 messages out of 4 (3 loads and garbage); 2 points; 2 months; 3 failures of 4 kinds |
| `pipeline` | end-to-end ledger, what may be given up, and liveness `AcceptedIsStored` | 2 requests; a seeded and a new site; 1 API and 2 consumer processes; 2 failures of 4 kinds; two loads of which one overflows; one month |
| `relays` | what does a delivered row stand for, how often is it sent, raised or added, what does an exhausted row leave, is every row delivered? refinement of `Delivery` and liveness | up to 2 of 4 business events (a batch, its replay that counted nothing, a second event of it that did count, another batch), a delta and an alert of the consumer; 2 outbox workers, 1 of each other kind; a store of 1 key; 2 attempts; rest 1, day 2, year 3, guard 3; 3 failures of 5 kinds |
| `console` | does each page tell the truth? the form's `batch_id`, the paged list under late commits, the metrics read; liveness of a submission and of a polled row | 2 entries in 3 POSTs; 1 site and 2 POSTs for two more, pages of 1, 2 GETs at a time; 2 months, 2 batches, 2 overlapping polls; 2 failures of 6 kinds |
| `edge_retry`, `edge_cold`, `consumer_points`, `consumer_replay`, `consumer_poison`, `pipeline_payload` | one documented claim each, which the code does not keep (section 5) | the smallest instance with the counterexample |

**Why the bounds are enough.** Every race in this code is between two parties
over one key (two creations of one slug, two requests of one batch, the old and
the new owner of one partition); the runs have two, and a third where the outcome
of a race meets a latecomer. Three failures allow a failure, a second one during
its compensation, and one more of another kind. Two messages are the least
number with a redelivery *and* something behind it. The loads are chosen so that
a batch spans two months, repeats a key, shares keys with another batch of
the same id, and overflows. Two months are enough for a rollover at any
statement; the pipeline has one, since the rollover acts on the consumer alone and
`consumer` has it everywhere, and has loads that overflow instead, so that a batch
is stuck behind another one, or is stuck itself, while the API answers. In the
ingest models `MaxLog`, `MaxMonth` and `MaxFaults` are the only bounds written in
guards. Processes of one kind are interchangeable, hence the symmetry sets; the
run with a liveness property declares none.

In `relays` two attempts are the least with an ordinary failure before the
exhausting one, three failures exhaust a row and fail it once more after its rest, or
exhaust it and roll a tick back; a guard of 3 against a rest of 1 and a day of 2
lets a key expire under a pending row, as seven days do against endless daily
retries; two rows are the least for a tick with a mixed outcome and for two
replicas to split them; one key in the store makes any second batch evict the
first. Jitter is 0: it only moves the instant a row comes due, and here nothing
depends on it but the order of rows, which is free anyway. In `console` three
POSTs allow a first attempt, a retry and a second entry;
three sites on pages of one let a site commit behind a cursor, before it and between
two pages; two polls overtake each other; with two months there is one closed and one
current at the rollover. The bounds `MaxBacklog`, `MaxCalls`, `MaxBatchIds`,
`MaxSites`, `MaxFetches`, `MaxCreates`, `MaxBatches` and `Months` are in guards or
initial states; `MaxBatchIds` only limits resets by the user, never an answer.

Deadlock is not checked: requests are finite, creations are finite and a
consumer with nothing to fetch waits, so every bounded behaviour ends.

**Fairness.** In the pipeline `WF(ConsumerStep(c))`, for each consumer process: KafkaJS's
loop keeps calling `eachBatch`, restarts it after an error it can retry and
rejoins otherwise, the container restarts a process that died, and the group
coordinator always finds an owner for the partition. No failure is ever fair and
nothing obliges a client, an API process or Redis to act. `PipelineFairSpec` and
`FairSpec` carry it; the safety runs use none.

`RelaysFairSpec`: weak fairness of each worker's good steps and of time.
`setInterval` ticks as long as a process runs, `docker-compose.yml` restarts one
that died, and Postgres gives a dead session's locks back. A lost POST need never
arrive. `ConsoleFairSpec`: a request of the ingest form is answered or given up by
the browser, and the handler of the answer runs; the interval of a mounted row
fires again and a poll goes on. No click is fair.

**Mutants.** Beside the definition it alters, each property of a passing run has
an operator `Mutant of X` that changes `X` as a plausible bug would (a claim
taken with HSET, an error caught in `eachBatch`, rows reported as
submitted instead of as inserted, ...). With the mutant in place of the
definition the run reports the property violated.

## 4. Proofs

Every theorem holds for any values of the constants that meet the named
assumptions: any numbers of processes, clients, messages, rows and failures, any
kinds of failure, any sizes of pages, ticks and stores. The assumptions are types,
and these facts:

| Assumption | Says | Because |
|---|---|---|
| `EventAssumption` | every outbox row has an event | the consumer inserts both in one statement |
| `ConsumerAlertsAssumption` | an alert of the consumer is none of a relay's | `alert_type`, a literal in each service, differs |
| `ListingAssumption` | the seeded sites are distinct and within `MaxSites`; a page has a row | the unique index; `limit` is at least 1 in the query's schema |
| `FormAssumption` | `MaxBatchIds > MaxCalls` | a bound: an answer never lacks a new `batch_id` |
| `PipelineAssumption`, `ConsumerAssumption` | a batch has a measurement | `.min(1)` in the contract |

### Sites (`SiteRegistryProofs`)

`RegistryTypeCorrect`, `RowsAdvertised`, `PhantomsExplained`, `OneCreation` and
`OpenHasNoRow` state the five invariants of the run `sites`, all from one inductive
`RegistryInv`:

- `RowsAreAdvertised` alone does not survive a COMMIT, nor `PhantomsComeFromCreations`
  a warm-up's SADD. `CommitsAreAdvertised` carries the SADD's effect to the COMMIT, and
  `WarmUpsReadRows` carries the SELECT's to the SADD: what a warm-up adds late still has
  its row, since rows never go away.
- `OneCreationPerSlug`, `OpenCreationHasNoRow` and `CreatedHasRow` are inductive only
  together: the unique index is consulted at the INSERT, and what it excluded then
  stays excluded until the COMMIT.

### Endpoint (`IngestEdgeProofs`)

| Theorem | States | Inductive part |
|---|---|---|
| `EdgeTypeCorrect` | `[]EdgeTypeOK` | `RequestsTyped`: a request at work carries a batch |
| `ClaimsBacked` | `[]ClaimsAreBacked` | itself, with the types: a holder that is done has appended, has given the claim back, or has orphaned it |
| `CopiesExcused` | `[]CopiesAreExcused` | `ExcusesCover`: copies, plus requests that hold the claim and may still append one, plus one if the claim is free for a next holder, are at most one and the excuses |
| `LoggedKnown` | `[]LoggedSitesAreKnown` | `CheckedAreKnown`: a request beyond the site check names a site with a row, or a creation at its COMMIT or failed; `Known` is stable |

`ExcusesCover` is the core: the copies alone can be few while several requests are
each about to append another. Each transition of a request moves weight from one
of the three terms to another, and only a fault adds any, with its excuse.

### Consumer (`IngestConsumerProofs`)

| Theorem | States | Inductive invariant |
|---|---|---|
| `TypeCorrect` | `[]ConsumerTypeOK` | `TypeInv`: the types, and `InFlight`: a handler at work holds an offset of the log, and a real batch once it has passed the lookup |
| `CountedOnce`, `DeltasCountedOnce` | `[]OutboxCountsOnce`, `[]DeltasCountOnce` | each with `TypeInv`; the fresh rows of a commit are disjoint from the table, so from every earlier event and delta; `tx` tells two deltas of one month apart |
| `LateStale` | `[]LateRowsAreStale` | `MonthsOrdered`: between lookup and commit, `fetched <= month <= clock` |
| `PointsCorrect` | `[]PointsExist` | `PointsInv`: what a process caches or has resolved is in the table, which never shrinks |
| `NothingSkipped` | `[]NothingSkippedSinceStart` | `OffsetsInv`: committed offsets lie between start and position, a handler waiting to resolve is settled, and an owner's handler never runs ahead of the position |
| `CommittedMonotone` | `CommittedNeverRegresses` | from `OffsetsInv` |
| `PersistedStored` | `[]PersistedIsStored` | `StoredInv`: also for a handler that waits to resolve its offset; log and table only grow |
| `ImplementsLedger` | `LedgerSpec` | the two counting invariants make a commit a `Count` step; everything else is an `Offer` or a stutter |

None of these properties is inductive alone. `ConsumerTypeOK` says nothing of what a
process holds in flight, yet the commit writes rows made from it; `LateRowsAreStale`
compares two clock readings of different steps; `CommittedNeverRegresses` speaks of a
commit by the owner, which may just have been handed a partition whose previous
owner is still at work.

### Ingest path (`IngestPipelineProofs`)

`GivenUpWereNew` (`[]GivenUpSitesWereNew`) and `PipelineCountsOnce` (`EndToEndLedger`). The
consumer's lemmas are about steps, not about its own `Init`, so they are taken over by
`Steps == INSTANCE IngestConsumerProofs`, with the log and the sites now written by the
API. `PipelineInv` joins the invariants of both sides with three facts neither side
knows: `LogWasSubmitted` (what is in the topic is some request's batch, and a request
keeps its batch), `IdleIsEmpty` with `SeedsStay`, and `DroppedWereNew`: a site the consumer did
not find is no seeded one, and has a creation at its COMMIT or ended without a conflict. It follows from `LoggedKnown`
at the moment of the lookup, and no later step undoes it. For the refinement the offers
are the requests, so an append by the producer is a stutter and a commit counts a batch
that was offered.

### Relays and receiver (`RelayTableProofs`, `AlertReceiverProofs`, `RelaysProofs`)

| Theorem | States | Inductive part |
|---|---|---|
| `RelaysTypeCorrect` | `[]RelaysTypeOK` | `TablesInv`, `MailKnown`: what may still arrive was sent from a row |
| `SendsCountedFor` | `[]SendsAreAccounted` | `TableInv` of the three tables |
| `DeliveredRaised` | `[]DeliveredWasRaised` | `HeardLogged`: an event that was heard left a line, whichever answer it got; `KeysWereAnnounced`: each memory that suppresses a batch, or ever suppressed it, announced one of its events first |
| `ExhaustionReported` | `[]ExhaustionIsReported` | inductive with `TablesInv` |
| `DeltasAdded` | `[]DeltasAddedOnce` | `GuardsCount`: a live guard stands for one addition, each other addition for a lapse |
| `AlertsRaisedOnce` | `[]RaisedOnce` | `RaisedExactly` and `KeysDistinct`: a key is one alert more than forgotten keys, and eviction drops it once |
| `RelaysDeliver` | `AtLeastOnceDelivery` | `ReachedFirst`, and that every step touches each table in one of few ways |

The loop the three services repeat is proved about once. `RelayTableProofs` has a
parameter `reached`, what the other side of the table has received, and shows that
every step a relay can take keeps `TableInv`; `RelaysProofs` instantiates it three
times. Its parts: `HeldApart` (SKIP LOCKED: no two open transactions hold one row),
`PartsApart` and `HeldPending` (a tick has one use for a row, and it is pending);
`SendsCounted`, which extends the accounting to the row a tick has in hand, and needs
the three before it; `AttemptsAreFaults` (attempts are at most the failures so far,
which types the alerts); `ReachedFirst` (a row is delivered, or marked so in an open
tick, after its content arrived). In the refinement a commit, with the alerts it inserts, is a
`Settle`, an arrival at the other side a `Receive`, and all else a stutter; that a
settled row had been received is `ReachedFirst`.

### Web application and reads (`ConsoleProofs`)

| Theorem | States | Inductive part |
|---|---|---|
| `ConsoleTypeCorrect` | `[]ConsoleTypeOK` | all of `ConsoleInv`; totals and sums need `TotalsWereMeasured` and `RoomForBatch` |
| `EntriesAcceptedOnce` | `[]EntryAcceptedOnce` | `FormInv`: `OneAwaited`, `OneDraftPerBatch`, `LoadsWereSent`, `QueuedIsGone`, `NothingGivenUp` |
| `QueuedAccepted` | `[]QueuedIsAccepted` | `FormInv`, chiefly `ClaimsHeld`: a claim was made by a POST; an entry answered 202 has such a POST, and one that is done has produced |
| `RetryOffered` | `[]RetryIsOffered` | `FormInv` |
| `ListingExact` | `[]ListingIsExact` | `ListingInv`: `OneFetch`, `ShownToCursor`, `PagesGoOn` |
| `TruthTold` | `[]FormTellsTheTruth` | `CreateInv`: `OnePost`, `PostsKnow` |
| `ClosedMonthsExact` | `[]ClosedMonthsAreExact` | `DataInv` |
| `ReadingBetween` | `[]ReadingIsBetween` | `MetricsInv`: `DataInv` and, for every poll, `Between` |

- The form: `EntryAcceptedOnce` is about what the API accepted, but what may be sent
  next is in the form. `NothingGivenUp` says that each POST so far is one the form called
  queued or refused, or the one it may send again, and that these have different
  entries; `OneAwaited` makes the answer that arrives the one about that POST.
- The listing: a page was read at one instant and is shown at another, so the
  guarantee is stated twice, for the page (`PagesGoOn`) and for the table
  (`ShownToCursor`), and `OneFetch` says that the page fits the table it is added to.
- The read: `Between` says that what a poll has read, with what the statements ahead of
  it *would* read now, comes to no less than its floor. It is kept because a read never
  falls (`Grows`, `ReadsGrow`): commits only add, a month marked stale is read anew,
  and the ETL closes a month at its total. The upper bound is that the boundary
  splits what was measured in two. Both are about sums over a varying set of months;
  since a sum is the number of a set of kilograms, they follow from inclusion and
  the theorems on cardinality, where an argument by induction over the months would be
  out of the prover's reach.
- A step of one page leaves the others' variables alone, so the four invariants are kept
  separately.

### Only model-checked

Liveness under fairness is out of the proof system's reach and left to TLC:
`AcceptedIsStored`, `EveryRowIsDelivered`, `SubmissionEnds`, `WatchedRowCatchesUp`. Every other
property of a passing run has its theorem. The inductive invariants were
model-checked on the instances of section 3 before they were proved.

## 5. Where code and documents part

Each has a run with a counterexample:

| Run | The document | The code |
|---|---|---|
| `edge_retry` | `docs/architecture/ingest-pipeline.md:159`: any 202 means the retry succeeded | a retry is answered 202 while the holder of the claim is about to fail and give it back: the batch is nowhere |
| `edge_cold` | `bootstrap.service.ts:16`: after a failed warm-up `/ingest` falls back to the database | the fallback is taken only when SISMEMBER throws; an incomplete set answers 404 |
| `consumer_points` | `ingest-handler.service.ts:157`: an unresolved code "should never happen" (line 238 promises a re-SELECT) | the INSERT returns only what it created; a code created by a sibling in between is not read, and the attempt throws. The next attempt finds it |
| `consumer_replay` | `kafka-consumer.service.ts:32`: a message whose commit failed is replayed | before the first committed offset a restart begins at the end of the topic |
| `consumer_poison` | `kafka-consumer.service.ts:28`: a poison message does not block those behind it | a valid batch whose delta exceeds `numeric(18, 6)` throws at every attempt; a good batch behind it is never stored |
| `pipeline_payload` | `ARCHITECTURE.md:512`: a changed payload under one `batch_id` is rejected by the unique index | the index also has point and instant; other rows are inserted |

Seen while reading, without a run (wording, absent features, or behaviour no
document speaks of clearly enough to refute):

- `ingest-pipeline.md:159` names a `stale` field, which the 202 response lacks;
  `cache-as-authority.md:35` calls a slug outside the set invalid, and says nothing
  of the advertised slug that a failed COMMIT leaves behind.
- The relay's class comment says an exhausted row raises an alert "instead of
  retrying"; it rests for a day, is tried again, and raises one more alert with each
  further failure (`ExhaustionIsReported` states exactly that). `outbox-relay.md:54`
  speaks of a year.
- `apps/metrics-relay/src/redis.module.ts:26` puts the worst retry window of a row at 14
  minutes. The guard outlives the ordinary backoff by far, but not the
  daily retries of an exhausted row: after seven days the delta can be added again
  (the exception in `DeltasAddedOnce`).
- `packages/contracts/src/alerts.ts:22` calls the outbox id the idempotency key; the receiver's key is
  `event_type` and `batch_id` (`ARCHITECTURE.md:514-526` adds the aggregate, and says
  that further outbox rows of a batch have inserted 0). `pipeline_payload` shows that
  a second event of a batch can count rows; it is suppressed and called delivered (the
  exception in `DeliveredWasRaised`).
- `metrics.service.ts:20` takes one read-only transaction for a consistent snapshot;
  under READ COMMITTED each statement has its own. `ReadingIsBetween` says what
  the sum is worth nevertheless.
- The cursor's comments speak of insertion order; a site that commits late is
  passed over by a walk already beyond its id (the exception in `ListingIsExact`).
- The ingest form's banner announces a new batch ID after a validation failure in
  the browser too, where none is made.

## 6. Not modelled

Not modelled at all: the ETL (a placeholder of three lines), OpenAPI, health
checks, configuration, logging, topic creation and migrations, which have no
state of their own. Schema validation appears only as what it admits and as the
refusals it causes.

Left out of modelled components: the in-process event after a delivery, whose only
listener logs; the TTL of 90 days on counters nobody reads; the rows editor of
the ingest form and the texts of both forms, which are one choice of a draft; the
order of rows within a tick; the digits of decimals. Values of measurements are
abstracted to whether two of them overflow; partitions of `measurements` always
exist (DDL); the topic has one partition, the one `topic-init.ts:32` creates. A
failed INSERT of a system alert in the consumer is a branch of `InsertAlert`; no
property is stated about it, since no document promises that row
unconditionally. The ingest form has the steps of `IngestService` coarser than
`IngestEdge` does, without processes or the topic, and is not composed with
`IngestPipeline`, whose product would be out of reach.

## 7. Plan

Done: the components of section 2, their runs, and the proofs of section 4. Left:

1. More action properties, where a step's effect is worth more than a state's
   (a settled row is never touched again; a claim is never taken over), each of
   them already a consequence of the inductive invariants above.
2. A theorem that the API as the ingest form sees it is what `IngestEdge` does: its
   `accepted` and `claims` as a refinement mapping of the topic and the dedupe hash.
3. The numeric refusals of the read (`MaxWire`) against `delta_kg numeric(18, 6)`:
   which totals the schema of the database admits and the contract cannot carry.

The runs stay few: one per question, the counterexample runs as small as the
disagreement allows.

## 8. Running

    tlc -workers 2 -config MCIngestConsumer.cfg MCIngestConsumer
    tlapm ConsoleProofs.tla

`pipeline` takes about three and a half minutes, `console` and `relays` about two, every
other run less. A module of proofs takes about a minute, `RelaysProofs` two to three and
`ConsoleProofs` four.
