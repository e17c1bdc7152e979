----------------------------- MODULE IngestEdge -----------------------------
(***************************************************************************)
(* POST /ingest: IngestService.ingest (apps/api/src/ingest), one step per  *)
(* call it awaits.  A request checks its slug against Redis (Postgres when *)
(* Redis throws), claims its batch_id in the per-site dedupe hash, and     *)
(* produces the batch to Kafka; a produce that throws gives the claim back *)
(* and answers 500.  Any number of requests interleave, on any number of   *)
(* API processes, and share one Redis and one topic.                       *)
(***************************************************************************)
EXTENDS SiteRegistry, Sequences

CONSTANTS
    Requests,       \* POST /ingest requests that reach the service
    Batches,        \* batch_ids
    Loads           \* the measurements a batch may carry, opaque here

VARIABLES
    req,            \* per request: where it is, its process and its batch
    dedupe,         \* fields of the hashes `ingest:dedupe:<slug>`
    log,            \* the partition of `emissions.ingest.v1`
    orphaned,       \* claims whose holder went away without producing (history)
    excuses         \* per claim, the faults that may let a copy through (history)

edgeVars == <<req, dedupe, log, orphaned, excuses>>
allEdgeVars == <<registryVars, edgeVars>>

Message == [site : Sites, batch : Batches, load : Loads]
Claim == Sites \X Batches
NoMessage == [site |-> Nobody, batch |-> Nobody, load |-> Nobody]

\* "queued" and "duplicate" are the two 202 answers, "missing" the 404 and
\* "error" the 500; a request is "dropped" when its process dies under it.
Working == {"check", "fallback", "dedupe", "produce", "revert"}
Answered == {"queued", "duplicate", "missing", "error"}
RequestPC == {"idle", "dropped"} \union Working \union Answered

EdgeTypeOK ==
    /\ RegistryTypeOK
    /\ req \in [Requests -> [pc : RequestPC, api : Apis \union {Nobody},
                             msg : Message \union {NoMessage}]]
    /\ dedupe \subseteq Claim
    /\ log \in Seq(Message)
    /\ orphaned \subseteq Claim
    /\ excuses \in [Claim -> Nat]

EdgeInit ==
    /\ RegistryInit
    /\ req = [r \in Requests |-> [pc |-> "idle", api |-> Nobody, msg |-> NoMessage]]
    /\ dedupe = {}
    /\ log = <<>>
    /\ orphaned = {}
    /\ excuses = [k \in Claim |-> 0]

-----------------------------------------------------------------------------

\* Mutant of ClaimOf: the hash key and its field are swapped.
ClaimOfSwapped(m) == <<m.batch, m.site>>

ClaimOf(m) == <<m.site, m.batch>>
At(r, pc) == req[r].pc = pc
Goto(r, pc) == req' = [req EXCEPT ![r].pc = pc]

\* Requests that believe they are the first sight of a claim and still have the
\* produce, or the revert after it, to do.
Holders(k) == {r \in Requests :
    req[r].pc \in {"produce", "revert"} /\ ClaimOf(req[r].msg) = k}

InLog(k) == \E i \in DOMAIN log : ClaimOf(log[i]) = k
Copies(k) == Cardinality({i \in DOMAIN log : ClaimOf(log[i]) = k})

Excuse(k) == excuses' = [excuses EXCEPT ![k] = @ + 1]

-----------------------------------------------------------------------------
(* IngestController and assertSiteValid.                                   *)

\* A request that passed IngestBatchSchema enters the service.
Receive(r) ==
    /\ At(r, "idle")
    /\ \E a \in Serving, m \in Message :
          req' = [req EXCEPT ![r] = [pc |-> "check", api |-> a, msg |-> m]]
    /\ UNCHANGED <<registryVars, dedupe, log, orphaned, excuses>>

\* SISMEMBER answers: a miss is a 404, Postgres is not asked.
CheckMember(r) ==
    /\ At(r, "check")
    /\ Goto(r, IF req[r].msg.site \in sitesValid THEN "dedupe" ELSE "missing")
    /\ UNCHANGED <<registryVars, dedupe, log, orphaned, excuses>>

CheckMemberThrows(r) ==
    /\ At(r, "check")
    /\ Fault("redis")
    /\ Goto(r, "fallback")
    /\ UNCHANGED <<siteRows, sitesValid, lost, create, boot>>
    /\ UNCHANGED <<dedupe, log, orphaned, excuses>>

\* Mutant of CheckRow: the fallback lets every slug through.
CheckRowSkipped(r) ==
    /\ At(r, "fallback")
    /\ Goto(r, "dedupe")
    /\ UNCHANGED <<registryVars, dedupe, log, orphaned, excuses>>

\* assertSiteValidViaDb: only committed rows count.
CheckRow(r) ==
    /\ At(r, "fallback")
    /\ Goto(r, IF req[r].msg.site \in siteRows THEN "dedupe" ELSE "missing")
    /\ UNCHANGED <<registryVars, dedupe, log, orphaned, excuses>>

CheckRowThrows(r) ==
    /\ At(r, "fallback")
    /\ Fault("db")
    /\ Goto(r, "error")
    /\ UNCHANGED <<siteRows, sitesValid, lost, create, boot>>
    /\ UNCHANGED <<dedupe, log, orphaned, excuses>>

-----------------------------------------------------------------------------
(* batchDedupe, the Lua script.                                            *)

\* Mutant of ClaimFirst: HSET for HSETNX, so every request is a first sight.
ClaimFirstAlways(r) ==
    /\ At(r, "dedupe")
    /\ dedupe' = dedupe \union {ClaimOf(req[r].msg)}
    /\ Goto(r, "produce")
    /\ UNCHANGED <<registryVars, log, orphaned, excuses>>

\* HSETNX wrote the field, HEXPIRE armed it: first sight.
ClaimFirst(r) ==
    LET k == ClaimOf(req[r].msg) IN
    /\ At(r, "dedupe")
    /\ k \notin dedupe
    /\ dedupe' = dedupe \union {k}
    /\ Goto(r, "produce")
    /\ UNCHANGED <<registryVars, log, orphaned, excuses>>

\* The field is there: 202, and nothing is produced.
ClaimSeen(r) ==
    /\ At(r, "dedupe")
    /\ ClaimOf(req[r].msg) \in dedupe
    /\ Goto(r, "duplicate")
    /\ UNCHANGED <<registryVars, dedupe, log, orphaned, excuses>>

\* The call throws, with or without having run the script: treated as a first
\* sight so that no data is dropped.
ClaimThrows(r) ==
    LET k == ClaimOf(req[r].msg) IN
    /\ At(r, "dedupe")
    /\ Fault("redis")
    /\ dedupe' \in {dedupe, dedupe \union {k}}
    /\ Excuse(k)
    /\ Goto(r, "produce")
    /\ UNCHANGED <<siteRows, sitesValid, lost, create, boot, log, orphaned>>

\* The client (maxRetriesPerRequest: 3) lost the connection after the script
\* ran and sent it again: the second run finds the field the first one wrote.
ClaimResent(r) ==
    LET k == ClaimOf(req[r].msg) IN
    /\ At(r, "dedupe")
    /\ k \notin dedupe
    /\ Fault("redis_resend")
    /\ dedupe' = dedupe \union {k}
    /\ orphaned' = orphaned \union {k}
    /\ Goto(r, "duplicate")
    /\ UNCHANGED <<siteRows, sitesValid, lost, create, boot, log, excuses>>

-----------------------------------------------------------------------------
(* producer.send and revertDedupe.                                         *)

\* Mutant of Produce: the 202 does not wait for the send, which fails.
ProduceUnawaited(r) ==
    /\ At(r, "produce")
    /\ Goto(r, "queued")
    /\ UNCHANGED <<registryVars, dedupe, log, orphaned, excuses>>

Produce(r) ==
    /\ At(r, "produce")
    /\ log' = Append(log, req[r].msg)
    /\ Goto(r, "queued")
    /\ UNCHANGED <<registryVars, dedupe, orphaned, excuses>>

\* All retries are exhausted.  The broker may still have appended the batch
\* (once: the producer is idempotent) when only the acknowledgements were lost.
ProduceThrows(r) ==
    /\ At(r, "produce")
    /\ Fault("kafka")
    /\ \/ UNCHANGED <<log, excuses>>
       \/ log' = Append(log, req[r].msg) /\ Excuse(ClaimOf(req[r].msg))
    /\ Goto(r, "revert")
    /\ UNCHANGED <<siteRows, sitesValid, lost, create, boot, dedupe, orphaned>>

\* Mutant of Revert: the error is rethrown without giving the claim back.
RevertSkipped(r) ==
    /\ At(r, "revert")
    /\ Goto(r, "error")
    /\ UNCHANGED <<registryVars, dedupe, log, orphaned, excuses>>

\* HDEL, whoever wrote the field; then the error is rethrown: 500.
Revert(r) ==
    LET k == ClaimOf(req[r].msg) IN
    /\ At(r, "revert")
    /\ dedupe' = dedupe \ {k}
    /\ orphaned' = orphaned \ {k}
    /\ Goto(r, "error")
    /\ UNCHANGED <<registryVars, log, excuses>>

\* HDEL throws, with or without having run: a warning is logged, 500 as well.
RevertThrows(r) ==
    LET k == ClaimOf(req[r].msg) IN
    /\ At(r, "revert")
    /\ Fault("redis")
    /\ \/ dedupe' = dedupe /\ orphaned' = orphaned \union {k}
       \/ dedupe' = dedupe \ {k} /\ orphaned' = orphaned \ {k}
    /\ Goto(r, "error")
    /\ UNCHANGED <<siteRows, sitesValid, lost, create, boot, log, excuses>>

-----------------------------------------------------------------------------
(* What happens around the handler.                                        *)

\* A field reaches its TTL, or Redis loses it.
ClaimForgotten(k) ==
    /\ k \in dedupe
    /\ Fault("forget")
    /\ dedupe' = dedupe \ {k}
    /\ orphaned' = orphaned \ {k}
    /\ Excuse(k)
    /\ UNCHANGED <<siteRows, sitesValid, lost, create, boot, req, log>>

\* A process dies with the requests it serves.  Its producer has one produce on
\* the wire at a time (maxInFlightRequests: 1), which may reach the broker.
RebootEdge(a) ==
    LET dying   == {r \in Requests : req[r].api = a /\ req[r].pc \in Working}
        sending == {r \in dying : At(r, "produce")}
    IN
    /\ Reboot(a)
    /\ req' = [r \in Requests |->
          IF r \in dying THEN [req[r] EXCEPT !.pc = "dropped"] ELSE req[r]]
    /\ \/ log' = log
       \/ \E r \in sending : log' = Append(log, req[r].msg)
    /\ orphaned' = orphaned \union
          {ClaimOf(req[r].msg) : r \in {q \in dying : req[q].pc \in {"produce", "revert"}}}
    /\ UNCHANGED <<dedupe, excuses>>

RegistryStep ==
    /\ \/ \E c \in Creators :
             \/ CreateInsert(c) \/ CreateSAdd(c) \/ CreateSAddFails(c)
             \/ CreateCommit(c) \/ CreateCommitFails(c)
       \/ \E a \in Apis : WarmSelect(a) \/ WarmSAdd(a) \/ WarmFails(a)
       \/ RedisLosesSites
    /\ UNCHANGED edgeVars

EdgeNext ==
    \/ RegistryStep
    \/ \E a \in Apis : RebootEdge(a)
    \/ \E k \in Claim : ClaimForgotten(k)
    \/ \E r \in Requests :
          \/ Receive(r)
          \/ CheckMember(r) \/ CheckMemberThrows(r)
          \/ CheckRow(r) \/ CheckRowThrows(r)
          \/ ClaimFirst(r) \/ ClaimSeen(r) \/ ClaimThrows(r) \/ ClaimResent(r)
          \/ Produce(r) \/ ProduceThrows(r)
          \/ Revert(r) \/ RevertThrows(r)

EdgeSpec == EdgeInit /\ [][EdgeNext]_allEdgeVars

-----------------------------------------------------------------------------
(* Properties.                                                             *)

\* A claim in Redis answers every retry 202 without producing.  It is therefore
\* backed by the batch in the log or by a request that is still to produce it
\* or give the claim back, except where the holder died between the two stores,
\* the HDEL threw, or the client library repeated the script.
ClaimsAreBacked ==
    \A k \in dedupe : InLog(k) \/ Holders(k) # {} \/ k \in orphaned

\* The log holds one copy of a batch, plus at most one for every fault that
\* defeats the edge dedupe for it: Redis threw at the claim, the claim was
\* forgotten, or a produce threw although the broker had appended.
CopiesAreExcused ==
    \A k \in Claim : Copies(k) <= 1 + excuses[k]

\* What reaches the log names a site with a row, or one whose creation is still
\* open or failed: the only way the consumer can meet an unknown site.
LoggedSitesAreKnown ==
    \A i \in DOMAIN log :
        \/ log[i].site \in siteRows
        \/ \E c \in Creators :
              create[c].slug = log[i].site /\ create[c].pc \in {"commit", "failed"}

\* docs/architecture/ingest-pipeline.md:159: a client that gets any 202 may
\* consider its (re)submission successful.  The batch is in the log, or a
\* request that will put it there is still running.
RetryAnswered202IsSafe ==
    \A r \in Requests :
        At(r, "duplicate") =>
            LET k == ClaimOf(req[r].msg) IN InLog(k) \/ Holders(k) # {}

\* bootstrap.service.ts:16: when the warm-up fails, /ingest falls back to the
\* database.  A process whose warm-up failed does not answer 404 for a site
\* that has a row.
ColdProcessFallsBack ==
    [][\A r \in Requests :
          At(r, "check") /\ boot[req[r].api].pc = "cold" /\ req'[r].pc = "missing"
          => req[r].msg.site \notin siteRows]_allEdgeVars

=============================================================================
