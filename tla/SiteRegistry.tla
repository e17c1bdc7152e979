---------------------------- MODULE SiteRegistry ----------------------------
(***************************************************************************)
(* The sites of the platform and the Redis set that advertises them.       *)
(*                                                                         *)
(* SitesService.create (apps/api/src/sites/sites.service.ts) inserts the   *)
(* row and SADDs the slug inside ONE Postgres transaction: insert, SADD,   *)
(* COMMIT.  BootstrapService.warmSitesCache reads every row and SADDs it   *)
(* when an API process boots.  Nothing ever removes a slug; the set can    *)
(* only lose members when Redis itself loses data.                         *)
(***************************************************************************)
EXTENDS Failures, FiniteSets

CONSTANTS
    Sites,          \* the slugs a client may use
    SeedSites,      \* the rows `sites` holds before the behaviour starts
    Creators,       \* POST /sites requests
    Apis            \* API processes, each with its own boot warm-up

ASSUME RegistryAssumption == SeedSites \subseteq Sites

VARIABLES
    siteRows,       \* committed rows of table `sites`
    sitesValid,     \* the Redis SET `sites:valid`
    lost,           \* slugs Redis dropped since they were last added (history)
    create,         \* per POST /sites: where it is, and its slug
    boot            \* per API process: where its warm-up is, and what it read

registryVars == <<siteRows, sitesValid, lost, create, boot, faults>>

Nobody == "none"     \* no slug, no process

\* "sadd" and "commit" are the open transactions; "cold" is an API process that
\* serves although its warm-up threw.
CreatePC == {"idle", "sadd", "commit", "created", "conflict", "failed"}
BootPC == {"select", "sadd", "up", "cold"}

RegistryTypeOK ==
    /\ siteRows \subseteq Sites
    /\ sitesValid \subseteq Sites
    /\ lost \subseteq Sites
    /\ create \in [Creators -> [pc : CreatePC, slug : Sites \union {Nobody},
                               api : Apis \union {Nobody}]]
    /\ boot \in [Apis -> [pc : BootPC, slugs : SUBSET Sites]]
    /\ faults \in 0..MaxFaults

RegistryInit ==
    /\ siteRows = SeedSites
    /\ sitesValid \in SUBSET SeedSites
    /\ lost = SeedSites \ sitesValid
    /\ create = [c \in Creators |-> [pc |-> "idle", slug |-> Nobody, api |-> Nobody]]
    /\ boot = [a \in Apis |-> [pc |-> "select", slugs |-> {}]]
    /\ faults = 0

-----------------------------------------------------------------------------
\* SADD `sites:valid` slugs.
SAdd(slugs) ==
    /\ sitesValid' = sitesValid \union slugs
    /\ lost' = lost \ slugs

\* The API processes that answer requests: Nest listens after the warm-up.
Serving == {a \in Apis : boot[a].pc \in {"up", "cold"}}

-----------------------------------------------------------------------------
(* SitesService.create.                                                    *)

\* Requests whose transaction holds an uncommitted row with this slug.
Open(c) == create[c].pc \in {"sadd", "commit"}
\* Mutant of Inserting: no unique index on sites.slug makes an INSERT wait.
InsertingUnseen(slug) == {}

Inserting(slug) == {c \in Creators : Open(c) /\ create[c].slug = slug}

\* Mutant of CreateInsert: a row with this slug does not make the INSERT fail.
CreateInsertUnchecked(c) ==
    /\ create[c].pc = "idle"
    /\ \E a \in Serving, slug \in Sites :
          /\ Inserting(slug) = {}
          /\ create' = [create EXCEPT ![c] = [pc |-> "sadd", slug |-> slug, api |-> a]]
    /\ UNCHANGED <<siteRows, sitesValid, lost, boot, faults>>

\* INSERT INTO sites ... RETURNING.  The unique index makes the statement wait
\* while another transaction holds the slug, and fail when a row has it.
CreateInsert(c) ==
    /\ create[c].pc = "idle"
    /\ \E a \in Serving, slug \in Sites :
          /\ Inserting(slug) = {}
          /\ create' = [create EXCEPT ![c] =
                [pc |-> IF slug \in siteRows THEN "conflict" ELSE "sadd",
                 slug |-> slug, api |-> a]]
    /\ UNCHANGED <<siteRows, sitesValid, lost, boot, faults>>

\* The SADD inside the transaction succeeds: the slug is visible to /ingest
\* from here on, before the row is.
CreateSAdd(c) ==
    /\ create[c].pc = "sadd"
    /\ SAdd({create[c].slug})
    /\ create' = [create EXCEPT ![c].pc = "commit"]
    /\ UNCHANGED <<siteRows, boot, faults>>

\* Mutant of CreateSAddFails: a failed SADD is logged and the row committed.
CreateSAddFailsSoftly(c) ==
    /\ create[c].pc = "sadd"
    /\ Fault("redis")
    /\ create' = [create EXCEPT ![c].pc = "commit"]
    /\ UNCHANGED <<siteRows, sitesValid, lost, boot>>

\* The SADD throws, with or without having taken effect: rollback.
CreateSAddFails(c) ==
    /\ create[c].pc = "sadd"
    /\ Fault("redis")
    /\ \/ UNCHANGED <<sitesValid, lost>>
       \/ SAdd({create[c].slug})
    /\ create' = [create EXCEPT ![c].pc = "failed"]
    /\ UNCHANGED <<siteRows, boot>>

\* Mutant of CreateCommit: the transaction is not awaited before the 201.
CreateCommitUnawaited(c) ==
    /\ create[c].pc = "commit"
    /\ siteRows' \in {siteRows, siteRows \union {create[c].slug}}
    /\ create' = [create EXCEPT ![c].pc = "created"]
    /\ UNCHANGED <<sitesValid, lost, boot, faults>>

\* Mutant of CreateCommit: the row is inserted before the slug is validated.
CreateCommitUnchecked(c) ==
    /\ siteRows' = siteRows \union {create[c].slug}
    /\ create' = [create EXCEPT ![c].pc = "created"]
    /\ UNCHANGED <<sitesValid, lost, boot, faults>>

CreateCommit(c) ==
    /\ create[c].pc = "commit"
    /\ siteRows' = siteRows \union {create[c].slug}
    /\ create' = [create EXCEPT ![c].pc = "created"]
    /\ UNCHANGED <<sitesValid, lost, boot, faults>>

\* COMMIT throws: the row may or may not be there; nothing undoes the SADD.
CreateCommitFails(c) ==
    /\ create[c].pc = "commit"
    /\ Fault("db")
    /\ siteRows' \in {siteRows, siteRows \union {create[c].slug}}
    /\ create' = [create EXCEPT ![c].pc = "failed"]
    /\ UNCHANGED <<sitesValid, lost, boot>>

-----------------------------------------------------------------------------
(* BootstrapService.warmSitesCache.                                        *)

\* SELECT slug FROM sites; with no row there is nothing to add.
WarmSelect(a) ==
    /\ boot[a].pc = "select"
    /\ boot' = [boot EXCEPT ![a] =
          [pc |-> IF siteRows = {} THEN "up" ELSE "sadd", slugs |-> siteRows]]
    /\ UNCHANGED <<siteRows, sitesValid, lost, create, faults>>

WarmSAdd(a) ==
    /\ boot[a].pc = "sadd"
    /\ SAdd(boot[a].slugs)
    /\ boot' = [boot EXCEPT ![a].pc = "up"]
    /\ UNCHANGED <<siteRows, create, faults>>

\* Either statement throws: a warning is logged and the process serves.
WarmFails(a) ==
    /\ boot[a].pc \in {"select", "sadd"}
    /\ Fault(IF boot[a].pc = "select" THEN "db" ELSE "redis")
    /\ boot' = [boot EXCEPT ![a].pc = "cold"]
    /\ UNCHANGED <<siteRows, sitesValid, lost, create>>

\* The process dies: its open transactions are rolled back, except a COMMIT
\* that Postgres had already received, and the next process warms up anew.
Reboot(a) ==
    /\ a \in Serving
    /\ Fault("restart")
    /\ boot' = [boot EXCEPT ![a] = [pc |-> "select", slugs |-> {}]]
    /\ \E done \in SUBSET {c \in Creators : create[c].api = a /\ create[c].pc = "commit"} :
          siteRows' = siteRows \union {create[c].slug : c \in done}
    /\ create' = [c \in Creators |->
          IF create[c].api = a /\ Open(c)
          THEN [create[c] EXCEPT !.pc = "failed"] ELSE create[c]]
    /\ UNCHANGED <<sitesValid, lost>>

-----------------------------------------------------------------------------

\* Redis comes back without some members of the set (a flush, or the window
\* the append-only file had not reached).
RedisLosesSites ==
    /\ Fault("redis_loss")
    /\ \E gone \in SUBSET sitesValid \ {{}} :
          /\ sitesValid' = sitesValid \ gone
          /\ lost' = lost \union gone
    /\ UNCHANGED <<siteRows, create, boot>>

RegistryNext ==
    \/ \E c \in Creators :
          \/ CreateInsert(c) \/ CreateSAdd(c) \/ CreateSAddFails(c)
          \/ CreateCommit(c) \/ CreateCommitFails(c)
    \/ \E a \in Apis : WarmSelect(a) \/ WarmSAdd(a) \/ WarmFails(a) \/ Reboot(a)
    \/ RedisLosesSites

RegistrySpec == RegistryInit /\ [][RegistryNext]_registryVars

-----------------------------------------------------------------------------
(* Properties.                                                             *)

\* Every committed site is in `sites:valid`, unless Redis itself dropped it and
\* nobody has added it since: no failure of create or of the warm-up, in any
\* interleaving, leaves a row that /ingest answers 404 for.
RowsAreAdvertised == siteRows \subseteq sitesValid \union lost

\* A slug that /ingest accepts and that has no row was put there by a creation
\* that is still open or whose outcome was a failure; the warm-up adds none.
PhantomsComeFromCreations ==
    \A slug \in sitesValid \ siteRows :
        \E c \in Creators :
            create[c].slug = slug /\ create[c].pc \in {"commit", "failed"}

\* At most one open or successful creation per slug: of two POST /sites for one
\* new slug, racing in any order, at most one answers 201.
OneCreationPerSlug ==
    \A c, d \in Creators :
        /\ c # d
        /\ Open(c) \/ create[c].pc = "created"
        /\ Open(d) \/ create[d].pc = "created"
        => create[c].slug # create[d].slug

\* An open creation of a slug means the slug has no row yet.
OpenCreationHasNoRow ==
    \A c \in Creators : Open(c) => create[c].slug \notin siteRows

=============================================================================
