--------------------------- MODULE CreateSiteForm ---------------------------
(***************************************************************************)
(* components/CreateSiteForm.tsx against POST /sites: what the form tells  *)
(* its user, while an earlier request of the same user, whose answer was   *)
(* lost or left behind, may still be creating the site.                    *)
(***************************************************************************)
EXTENDS SitesListing

CONSTANTS
    MaxCreates      \* bound: POSTs a behaviour sends

ASSUME CreateAssumption == MaxCreates \in Nat

VARIABLES
    creating,       \* React state of the form
    posts           \* POST /sites, in order

createVars == <<creating, posts>>

Answers == {"none", "created", "fields", "try again"} \union
           {"NOT_FOUND", "CONFLICT", "RATE_LIMITED", "INTERNAL", "VALIDATION_FAILED"}
EmptyForm == [submitting |-> FALSE, says |-> "none", slug |-> "none"]

CreateTypeOK ==
    /\ creating \in [submitting : BOOLEAN, says : Answers, slug : Slugs \union {"none"}]
    /\ posts \in Seq([slug : Slugs, row : {0} \union RowNo, awaited : BOOLEAN,
                      server : {"sent", "open"} \union Outcomes])
    /\ Len(posts) <= MaxCreates

CreateInit == creating = EmptyForm /\ posts = <<>>

-----------------------------------------------------------------------------
(* The user and the form.                                                  *)

\* The button is disabled while submitting; a form that fails the shared schema
\* sends nothing.
SubmitSite(slug) ==
    /\ ~ creating.submitting /\ creating.says # "created"
    /\ Len(posts) < MaxCreates
    /\ creating' = [submitting |-> TRUE, says |-> "none", slug |-> slug]
    /\ posts' = Append(posts, [slug |-> slug, row |-> 0, awaited |-> TRUE, server |-> "sent"])
    /\ UNCHANGED <<listingVars, faults>>

SubmitInvalidSite ==
    /\ ~ creating.submitting /\ creating.says # "created"
    /\ creating' = [EmptyForm EXCEPT !.says = "fields"]
    /\ UNCHANGED <<posts, listingVars, faults>>

\* Cancel, or the redirect after a success: the POST goes on without the form.
LeaveForm ==
    /\ creating # EmptyForm
    /\ creating' = EmptyForm
    /\ posts' = [p \in DOMAIN posts |-> [posts[p] EXCEPT !.awaited = FALSE]]
    /\ UNCHANGED <<listingVars, faults>>

\* What handleSubmit makes of an answer: ZodErrors carry an array of issues, the
\* details of a conflict are no array.
Told(outcome, fate) ==
    LET result == Result(outcome, fate) IN
        CASE result = "data" -> "created"
          [] result = "retryable" -> "try again"
          [] result = "refused" /\ fate = "misshapen" -> "INTERNAL"
          [] result = "refused" /\ fate = "whole" /\ outcome = "zod" -> "fields"
          [] OTHER -> ErrorCode(Status(outcome))

SiteAnswered(p) ==
    /\ posts[p].awaited
    /\ \E fate \in Fates :
          /\ IF fate = "whole" THEN UNCHANGED faults ELSE Fault("net")
          /\ posts[p].server \in Outcomes \/ fate = "lost"
          /\ creating' = [creating EXCEPT !.submitting = FALSE,
                                          !.says = Told(posts[p].server, fate)]
    /\ posts' = [posts EXCEPT ![p].awaited = FALSE]
    /\ UNCHANGED listingVars

-----------------------------------------------------------------------------
(* SitesService.create, as SiteRegistry has it in detail.                  *)

PostEnds(p, outcome) == posts' = [posts EXCEPT ![p].server = outcome]

SiteInserted(p) ==
    /\ posts[p].server = "sent"
    /\ InsertSite(posts[p].slug)
    /\ posts' = [posts EXCEPT ![p].server = "open", ![p].row = Len(rows) + 1]
    /\ UNCHANGED <<creating, walk, fetches, high, passed, due, faults>>

\* Mutant of SiteConflicts: an open INSERT of the slug is a conflict already.
SiteConflictsEarly(p) ==
    /\ posts[p].server = "sent"
    /\ Taken(posts[p].slug, "live") \/ Taken(posts[p].slug, "open")
    /\ PostEnds(p, "conflict")
    /\ UNCHANGED <<creating, listingVars, faults>>

SiteConflicts(p) ==
    /\ posts[p].server = "sent"
    /\ Taken(posts[p].slug, "live")
    /\ PostEnds(p, "conflict")
    /\ UNCHANGED <<creating, listingVars, faults>>

\* The pipe may know fewer timezones than the browser: a 400 with issues.
SiteRefused(p) ==
    /\ posts[p].server = "sent"
    /\ Fault("refuse")
    /\ PostEnds(p, "zod")
    /\ UNCHANGED <<creating, listingVars>>

SiteCommitted(p) ==
    /\ posts[p].server = "open"
    /\ CommitSite(posts[p].row)
    /\ PostEnds(p, "done")
    /\ UNCHANGED <<creating, walk, fetches, high, due, faults>>

\* The SADD fails, and the row is rolled back; or the answer of the COMMIT is lost.
SiteFails(p) ==
    /\ posts[p].server = "open"
    /\ Fault("error")
    /\ CommitSite(posts[p].row) \/ AbortSite(posts[p].row)
    /\ PostEnds(p, "unknown")
    /\ UNCHANGED <<creating, walk, fetches, high, due>>

CreateNext ==
    \/ SubmitInvalidSite \/ LeaveForm \/ \E slug \in Slugs : SubmitSite(slug)
    \/ \E p \in DOMAIN posts : \/ SiteInserted(p) \/ SiteConflicts(p) \/ SiteRefused(p)
                               \/ SiteCommitted(p) \/ SiteFails(p) \/ SiteAnswered(p)

-----------------------------------------------------------------------------
\* What the form says is so: a site it calls created is the row of one of its own
\* requests, and a site in conflict is a row, whichever answers were lost, late, or
\* came while another INSERT of the slug was open.
FormTellsTheTruth ==
    /\ creating.says = "created" =>
          \E p \in DOMAIN posts :
              posts[p].slug = creating.slug /\ posts[p].row \in Live
    /\ creating.says = "CONFLICT" => Taken(creating.slug, "live")

=============================================================================
