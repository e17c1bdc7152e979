------------------------------ MODULE Console ------------------------------
(***************************************************************************)
(* The web application against the API: the ingest form, the dashboard     *)
(* with the form that creates its sites, and the row that polls a site's   *)
(* metrics.  These are pages that share no state, in the browser or in the *)
(* tables they read, so a behaviour watches one of them.                   *)
(***************************************************************************)
EXTENDS IngestForm, CreateSiteForm, MetricsRead

VARIABLE watch      \* the page this behaviour watches

consoleVars == <<formVars, listingVars, createVars, metricsVars, watch, faults>>

Pages == {"ingest", "sites", "metrics"}

ConsoleInit ==
    /\ watch \in Pages
    /\ faults = 0
    /\ FormInit /\ ListingInit /\ CreateInit /\ MetricsInit

OnIngestPage(Step) ==
    /\ watch = "ingest" /\ Step
    /\ UNCHANGED <<listingVars, createVars, metricsVars, watch>>
IngestPage == OnIngestPage(FormNext)

\* A step of the dashboard, or of the form beside it.
SitesPage ==
    /\ watch = "sites"
    /\ \/ ListingNext /\ UNCHANGED createVars
       \/ CreateNext
    /\ UNCHANGED <<formVars, metricsVars, watch>>

OnMetricsRow(Step) ==
    /\ watch = "metrics" /\ Step
    /\ UNCHANGED <<formVars, listingVars, createVars, watch>>
MetricsRow == OnMetricsRow(MetricsNext)

ConsoleNext == IngestPage \/ SitesPage \/ MetricsRow
ConsoleSpec == ConsoleInit /\ [][ConsoleNext]_consoleVars

\* A POST of the form is answered or fails, and the form handles what came of it.
ReplyArrives(i) == OnIngestPage(i \in DOMAIN calls /\ FormReply(i))

\* The interval fires again, and a poll goes on to its answer.
PollFires(p) == OnMetricsRow(PollStarts(p))
PollGoesOn(p) == OnMetricsRow(ReadPrior(p) \/ ReadCurrent(p) \/ PollAnswered(p))

\* A request does not stay unanswered for ever (the browser gives up in the end),
\* and the interval of a mounted row never stops.  The user owes nothing.
ConsoleFairSpec ==
    /\ ConsoleSpec
    /\ \A i \in 1..MaxCalls : WF_consoleVars(ReplyArrives(i))
    /\ \A p \in Polls : WF_consoleVars(PollFires(p)) /\ WF_consoleVars(PollGoesOn(p))

-----------------------------------------------------------------------------
\* The types of the three pages.
ConsoleTypeOK ==
    /\ watch \in Pages /\ faults \in 0..MaxFaults
    /\ FormTypeOK /\ ListingTypeOK /\ CreateTypeOK /\ MetricsTypeOK

\* The row of a watched site comes to show what a read would answer, and stays
\* there, whatever polls failed or overtook each other (SiteMetricsRow.tsx).
WatchedRowCatchesUp == watch = "metrics" => RowCatchesUp

=============================================================================
