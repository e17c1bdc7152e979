----------------------------- MODULE IngestForm -----------------------------
(***************************************************************************)
(* components/IngestForm.tsx against POST /ingest: the batch_id it makes,  *)
(* keeps across retries and replaces, while requests it no longer waits    *)
(* for are still on their way.  The API claims a batch_id at first sight,  *)
(* and answers every repetition 202 without knowing what becomes of the    *)
(* first (IngestEdge has its steps in full).                               *)
(***************************************************************************)
EXTENDS Envelope, Sequences

CONSTANTS
    Drafts,         \* measurements a user enters, each meant to be sent once
    Blank,          \* a form that does not pass validation
    SiteOf,         \* the site an entry is for
    MaxBatchIds,    \* bound: batch_ids a behaviour makes
    MaxCalls        \* bound: POSTs a behaviour sends

ASSUME FormAssumption ==
    /\ Blank \notin Drafts
    /\ {MaxBatchIds, MaxCalls} \subseteq Nat
    /\ MaxBatchIds > MaxCalls

VARIABLES
    form,           \* React state of the form, and pendingPayload
    calls,          \* POSTs sent, in order
    accepted,       \* payloads the API produced to the topic
    claims,         \* the dedupe hashes: a batch_id is claimed in its site's
    holders,        \* POSTs the API saw as the first of their batch_id
    resent,         \* claims whose own script was taken for a duplicate (history)
    told,           \* payloads the form called queued (history)
    refused,        \* payloads the form called refused (history)
    lapses          \* what the user did that the batch_id does not cover (history)

apiVars == <<accepted, claims, holders, resent>>
formVars == <<form, calls, apiVars, told, refused, lapses>>

BatchNo == 1..MaxBatchIds
Payload == [batch : BatchNo, draft : Drafts]
ClaimOf(p) == [batch |-> p.batch, site |-> SiteOf[p.draft]]
NoPayload == [batch |-> 0, draft |-> Blank]
Statuses == {"idle", "submitting", "retryable_error", "field_error", "success"}

FormTypeOK ==
    /\ form \in [batch : BatchNo, draft : Drafts \union {Blank}, status : Statuses,
                 pending : Payload \union {NoPayload}, sites : {"loading", "none", "some"}]
    /\ calls \in Seq([load : Payload, server : {"sent"} \union Outcomes, open : BOOLEAN])
    /\ Len(calls) <= MaxCalls
    /\ accepted \subseteq Payload
    /\ claims \union resent \subseteq {ClaimOf(p) : p \in Payload}
    /\ holders \subseteq DOMAIN calls
    /\ told \subseteq Payload /\ refused \subseteq Payload
    /\ lapses \subseteq {"reset", "abandon", "edit"}

\* A form as it is mounted, under a fresh batch_id.
Mounted(batch) == [batch |-> batch, draft |-> Blank, status |-> "idle",
                   pending |-> NoPayload, sites |-> "loading"]

FormInit ==
    /\ form = Mounted(1)
    /\ calls = <<>>
    /\ accepted = {} /\ claims = {} /\ holders = {} /\ resent = {}
    /\ told = {} /\ refused = {} /\ lapses = {}

Awaited == {i \in DOMAIN calls : calls[i].open}
Lapses(kinds) == lapses' = lapses \union kinds

\* What a reset gives up: an awaited answer, or a payload whose fate is unknown.
GivenUp == {kind \in {"reset", "abandon"} :
                IF kind = "reset" THEN Awaited # {} ELSE form.pending # NoPayload}

\* Every answer still to come may make a batch_id.
RoomForReset == form.batch + MaxCalls < MaxBatchIds

-----------------------------------------------------------------------------
(* The user.                                                               *)

LoadSites ==
    /\ form.sites = "loading"
    /\ \E found \in {"none", "some"} : form' = [form EXCEPT !.sites = found]
    /\ UNCHANGED <<calls, apiVars, told, refused, lapses, faults>>

\* The fields stay editable whatever the status.  Nobody enters again what the
\* form called queued.
Enter(d) ==
    /\ form.status # "success"
    /\ d # form.draft
    /\ \A p \in told : p.draft # d
    /\ form' = [form EXCEPT !.draft = d]
    /\ UNCHANGED <<calls, apiVars, told, refused, lapses, faults>>

Send(p) ==
    /\ Len(calls) < MaxCalls
    /\ calls' = Append(calls, [load |-> p, server |-> "sent", open |-> TRUE])

\* The button is disabled while submitting and until there are sites.
CanSubmit == form.status \notin {"submitting", "success"} /\ form.sites = "some"

\* A failed validation makes no new batch_id, whatever the banner says.
SubmitInvalid ==
    /\ CanSubmit /\ form.draft = Blank
    /\ form' = [form EXCEPT !.status = "field_error"]
    /\ UNCHANGED <<calls, apiVars, told, refused, lapses, faults>>

FirstSubmit ==
    /\ CanSubmit /\ form.draft # Blank
    /\ LET p == [batch |-> form.batch, draft |-> form.draft] IN
          /\ Send(p)
          /\ form' = [form EXCEPT !.status = "submitting", !.pending = p]
          /\ Lapses({"edit" : i \in {j \in DOMAIN calls : calls[j].load.batch = p.batch
                                                     /\ calls[j].load.draft # p.draft}})
    /\ UNCHANGED <<apiVars, told, refused, faults>>

\* Mutant of Retry: the payload is read from the form again.
RetryFromForm ==
    /\ form.status = "retryable_error" /\ form.pending # NoPayload /\ form.draft # Blank
    /\ Send([batch |-> form.batch, draft |-> form.draft])
    /\ form' = [form EXCEPT !.status = "submitting"]
    /\ UNCHANGED <<apiVars, told, refused, lapses, faults>>

\* Without a pending payload the button does nothing.
Retry ==
    /\ form.status = "retryable_error" /\ form.pending # NoPayload
    /\ Send(form.pending)
    /\ form' = [form EXCEPT !.status = "submitting"]
    /\ UNCHANGED <<apiVars, told, refused, lapses, faults>>

\* Never disabled, and "New Batch" of the success view: an awaited answer will
\* still be handled.
StartOver ==
    /\ RoomForReset
    /\ form' = [Mounted(form.batch + 1) EXCEPT !.sites = form.sites]
    /\ Lapses(GivenUp)
    /\ UNCHANGED <<calls, apiVars, told, refused, faults>>

\* The page is left and opened again: answers go nowhere, requests go on.
Reload ==
    /\ RoomForReset
    /\ form' = Mounted(form.batch + 1)
    /\ calls' = [i \in DOMAIN calls |-> [calls[i] EXCEPT !.open = FALSE]]
    /\ Lapses(GivenUp)
    /\ UNCHANGED <<apiVars, told, refused, faults>>

-----------------------------------------------------------------------------
(* The API and the network.                                                *)

\* The API handles a POST at any time, awaited or not.
Unseen(i) == calls[i].server = "sent" /\ i \notin holders
AtWork(i) == calls[i].server = "sent" /\ i \in holders
Replies(i, outcome) == calls' = [calls EXCEPT ![i].server = outcome]

\* The site is not in the set, or the lookup that replaces the set throws.
TurnsAway(i) ==
    /\ Unseen(i)
    /\ \/ Fault("refuse") /\ Replies(i, "notFound")
       \/ Fault("error") /\ Replies(i, "unknown")
    /\ UNCHANGED apiVars

\* batchDedupe returns 1; or Redis throws, before the claim was made or after.
SeesFirst(i) ==
    /\ Unseen(i)
    /\ \/ ClaimOf(calls[i].load) \notin claims /\ claims' = claims \union {ClaimOf(calls[i].load)}
                                               /\ UNCHANGED faults
       \/ Fault("redis") /\ claims' \in {claims, claims \union {ClaimOf(calls[i].load)}}
    /\ holders' = holders \union {i}
    /\ UNCHANGED <<calls, accepted, resent>>

\* The client library sends the script again after a lost connection, and the second
\* run finds the claim of the first: 202, and nobody produces.
SeesItself(i) ==
    /\ Unseen(i)
    /\ Fault("redis")
    /\ ClaimOf(calls[i].load) \notin claims
    /\ claims' = claims \union {ClaimOf(calls[i].load)}
    /\ resent' = resent \union {ClaimOf(calls[i].load)}
    /\ Replies(i, "done")
    /\ UNCHANGED <<accepted, holders>>

\* batchDedupe returns 0: 202, whatever the holder of the claim has come to.
SeesDuplicate(i) ==
    /\ Unseen(i)
    /\ ClaimOf(calls[i].load) \in claims
    /\ Replies(i, "done")
    /\ UNCHANGED <<apiVars, faults>>

Produces(i) ==
    /\ AtWork(i)
    /\ accepted' = accepted \union {calls[i].load}
    /\ Replies(i, "done")
    /\ UNCHANGED <<claims, holders, resent, faults>>

\* The produce throws, although the broker may have taken the record, and the claim
\* is given back unless Redis throws too; or the process dies, and the claim stays.
ProduceFails(i) ==
    /\ AtWork(i)
    /\ Fault("error")
    /\ accepted' \in {accepted, accepted \union {calls[i].load}}
    /\ claims' \in {claims, claims \ {ClaimOf(calls[i].load)}}
    /\ Replies(i, "unknown")
    /\ UNCHANGED <<holders, resent>>

ApiHandles(i) ==
    /\ \/ TurnsAway(i) \/ SeesFirst(i) \/ SeesItself(i) \/ SeesDuplicate(i)
       \/ Produces(i) \/ ProduceFails(i)
    /\ UNCHANGED <<form, told, refused, lapses>>

\* The field of a claim reaches its TTL of a day, or Redis loses it.
ClaimForgotten(c) ==
    /\ Fault("forget")
    /\ claims' = claims \ {c}
    /\ UNCHANGED <<form, calls, accepted, holders, resent, told, refused, lapses>>

\* The reply to call i reaches the form as an error, if at all.
Spoilt(i, fate) ==
    /\ fate # "whole" => Fault("net")
    /\ fate = "whole" => UNCHANGED faults
    /\ fate # "lost" => calls[i].server # "sent"

Closed(i) == calls' = [calls EXCEPT ![i].open = FALSE]

\* The try branch of submit.
Succeeds(i) ==
    /\ i \in Awaited
    /\ calls[i].server # "sent" /\ Result(calls[i].server, "whole") = "data"
    /\ form' = [form EXCEPT !.status = "success", !.pending = NoPayload,
                            !.draft = Blank, !.batch = @ + 1]
    /\ told' = told \union {calls[i].load}
    /\ Closed(i)
    /\ UNCHANGED <<apiVars, refused, lapses, faults>>

\* The catch branch of an error that may not be retried.
IsRefused(i) ==
    /\ i \in Awaited
    /\ \E fate \in Fates :
          /\ Spoilt(i, fate)
          /\ calls[i].server # "sent" /\ Result(calls[i].server, fate) = "refused"
    /\ form' = [form EXCEPT !.status = "field_error", !.pending = NoPayload,
                            !.batch = @ + 1]
    /\ refused' = refused \union {calls[i].load}
    /\ Closed(i)
    /\ UNCHANGED <<apiVars, told, lapses>>

Retried(i, fate) ==
    /\ i \in Awaited
    /\ Spoilt(i, fate)
    /\ fate = "lost" \/ Result(calls[i].server, fate) = "retryable"
    /\ Closed(i)
    /\ UNCHANGED <<apiVars, told, refused, lapses>>

\* Mutant of MayRetry: every failed attempt makes a new batch_id.
MayRetryAsNew(i) ==
    /\ \E fate \in Fates : Retried(i, fate)
    /\ form' = [form EXCEPT !.status = "retryable_error", !.batch = @ + 1]

\* Mutant of MayRetry: an error that is no ApiClientError is not handled.
MayRetryApiErrors(i) ==
    \E fate \in Fates :
        /\ Retried(i, fate)
        /\ form' = IF fate = "garbled" THEN form
                   ELSE [form EXCEPT !.status = "retryable_error"]

\* The catch branch of an error that may be retried: batch_id and payload stay.
MayRetry(i) ==
    /\ \E fate \in Fates : Retried(i, fate)
    /\ form' = [form EXCEPT !.status = "retryable_error"]

FormUser ==
    \/ LoadSites \/ SubmitInvalid \/ FirstSubmit \/ Retry \/ StartOver \/ Reload
    \/ \E d \in Drafts \union {Blank} : Enter(d)
FormReply(i) == ApiHandles(i) \/ Succeeds(i) \/ IsRefused(i) \/ MayRetry(i)
FormNext ==
    \/ FormUser
    \/ \E c \in claims : ClaimForgotten(c)
    \/ \E i \in DOMAIN calls : FormReply(i)

-----------------------------------------------------------------------------
(* Properties.                                                             *)

\* However often the buttons are pressed and answers are lost, one entry is
\* accepted under two batch_ids only if a form was reset while it did not know what
\* became of a payload, edited under a batch_id already sent, or told that the API
\* refused what it accepts.
EntryAcceptedOnce ==
    \A p, q \in accepted :
        p # q /\ p.draft = q.draft =>
            lapses # {} \/ \E r \in refused \cap accepted : r.draft = p.draft

\* What the form calls queued is in the topic; or it was answered as the repetition
\* of a POST that is still at work, or that ended without an answer or in an error, or
\* of its own script, sent twice; or it was edited under a batch_id already sent, and
\* what is in the topic is another payload of that batch_id.  A retry after a plain lost
\* answer loses nothing.
QueuedIsAccepted ==
    \A p \in told :
        \/ p \in accepted
        \/ \E i \in holders : calls[i].load.batch = p.batch /\ calls[i].server # "done"
        \/ \E c \in resent : c.batch = p.batch
        \/ "edit" \in lapses /\ \E q \in accepted : q.batch = p.batch

\* The Retry button resends, and under the batch_id on the screen, unless the form
\* was reset while it awaited the answer that now offers the retry.
RetryIsOffered ==
    form.status = "retryable_error" =>
        form.pending.batch = form.batch \/ "reset" \in lapses

\* The form never stays at "Submitting...".
SubmissionEnds == form.status = "submitting" ~> form.status # "submitting"

=============================================================================
