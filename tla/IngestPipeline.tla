--------------------------- MODULE IngestPipeline ---------------------------
(***************************************************************************)
(* The ingest path from the HTTP request to the rows: IngestEdge appends   *)
(* to the topic, IngestConsumer reads it.  They share the topic and the    *)
(* `sites` table and nothing else.  A behaviour begins in any month and    *)
(* ends in it: the rollover is IngestConsumer's own, on the same actions.  *)
(***************************************************************************)
EXTENDS IngestEdge

CONSTANTS Codes, Instants, Heavy, MonthOf, Consumers, MaxLog, MaxMonth

VARIABLES
    clock, points, measurements, staleMonths, metricsOutbox, outbox, alerts,
    owner, position, committed, work, siteCache, pointCache,
    start, persisted, dropped, failed, late

consumerOwn == <<clock, points, measurements, staleMonths, metricsOutbox, outbox,
                 alerts, owner, position, committed, work, siteCache, pointCache,
                 start, persisted, dropped, failed, late>>
pipelineVars == <<allEdgeVars, consumerOwn>>

Consumer == INSTANCE IngestConsumer

\* The sentinel names no site, and the consumer's constants are its own.
ASSUME PipelineAssumption ==
    /\ Nobody \notin Sites
    /\ Loads \subseteq Seq(Consumer!Measurement) \ {<<>>}
    /\ Heavy \subseteq Consumer!Measurement
    /\ MonthOf \in [Sites \X Instants -> Nat]
    /\ MaxLog \in Nat
    /\ MaxMonth \in Nat \ {0}
    /\ Nobody \notin Consumers

PipelineInit ==
    /\ EdgeInit
    /\ Consumer!ConsumerInit
    /\ clock \in Consumer!Month

EdgeStep ==
    /\ EdgeNext
    /\ UNCHANGED consumerOwn

\* The consumer touches nothing of the API but the topic it reads and the
\* fault budget.
ConsumerStep(c) ==
    /\ Consumer!ConsumerStep(c)
    /\ UNCHANGED <<siteRows, sitesValid, lost, create, boot, edgeVars>>

ConsumerFault(c) ==
    /\ Consumer!ConsumerFault(c)
    /\ UNCHANGED <<siteRows, sitesValid, lost, create, boot, edgeVars>>

PipelineNext ==
    \/ EdgeStep
    \/ \E c \in Consumers : ConsumerStep(c) \/ ConsumerFault(c)

PipelineSpec == PipelineInit /\ [][PipelineNext]_pipelineVars

\* The consumer processes run on; requests and API processes may stop.
PipelineFairSpec ==
    PipelineSpec /\ \A c \in Consumers : WF_pipelineVars(ConsumerStep(c))

-----------------------------------------------------------------------------
(* Properties.                                                             *)

Submitted == {req[r].msg : r \in Requests} \ {NoMessage}

\* End to end: whatever requests are retried, duplicated at the edge, appended
\* twice, replayed or handled by two processes, the database counts each
\* measurement that a client submitted at most once, and a batch's together.
EndToEnd == INSTANCE EmissionsLedger WITH
    KeysOf <- Consumer!KeysOf,
    CellOf <- Consumer!CellOf,
    offered <- Submitted,
    counted <- measurements,
    reported <- UNION {{<<k, <<row.site, row.month>>>> : k \in row.rows} : row \in metricsOutbox},
    announced <- UNION {outbox[i].inserted : i \in DOMAIN outbox}
EndToEndLedger == EndToEnd!LedgerSpec

\* A site whose creation has come to its COMMIT, or to its end without a conflict.
Created(slug) ==
    \E c \in Creators :
        create[c].slug = slug /\ create[c].pc \in {"commit", "failed", "created"}

\* What the consumer gives up as an unknown site is of a slug whose own creation
\* was advertised before its COMMIT, or failed: no batch for a site that was
\* there all along is ever acknowledged to Kafka without being stored, also when
\* somebody tried, in vain, to create that site again.
GivenUpSitesWereNew ==
    \A i \in dropped : log[i].site \notin SeedSites /\ Created(log[i].site)

CopiesOf(m) == {i \in DOMAIN log : log[i] = m}

\* The group began reading behind every copy of m that the log holds.
BehindStart(m) == CopiesOf(m) # {} /\ \A i \in CopiesOf(m) : i < start

\* Every copy of m that the group may read is a batch that overflows, or stands
\* behind one, and that batch has not been settled.
Blocked(m) ==
    /\ CopiesOf(m) # {}
    /\ \A i \in CopiesOf(m) : i < start \/
          \E j \in start..i : Consumer!Poison(log[j]) /\ j \notin Consumer!Settled

\* A batch answered 202 as queued, for a site that exists, reaches the table,
\* through any crash, handover and failed statement of the consumer, unless the
\* group lost its place before its first commit and began behind the batch, or
\* the batch overflows or waits for ever behind one that does (the lockout of
\* ARCHITECTURE.md:530).
AcceptedIsStored ==
    \A r \in Requests :
        At(r, "queued") /\ req[r].msg.site \in SeedSites
        ~> \/ /\ req[r].msg # NoMessage
              /\ \/ Consumer!KeysOf(req[r].msg) \subseteq measurements
                 \/ BehindStart(req[r].msg)
           \/ []Blocked(req[r].msg)

\* ARCHITECTURE.md:512: a retry with the same batch_id and different
\* measurements is dropped; if Redis missed it, the unique index rejects it.
PayloadChangeIsDropped ==
    \A r, q \in Requests :
        LET a == req[r].msg
            b == req[q].msg
        IN  /\ a # NoMessage /\ b # NoMessage
            /\ ClaimOf(a) = ClaimOf(b) /\ a.load # b.load
            => \/ Consumer!KeysOf(a) \subseteq Consumer!KeysOf(b)
               \/ Consumer!KeysOf(b) \subseteq Consumer!KeysOf(a)
               \/ ~ Consumer!KeysOf(a) \union Consumer!KeysOf(b) \subseteq measurements

=============================================================================
