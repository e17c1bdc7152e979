---------------------------- MODULE SitesListing ----------------------------
(***************************************************************************)
(* GET /sites by cursor (MetricsService.listSites) and the dashboard that  *)
(* walks it page by page (app/page.tsx, components/SitesTable.tsx), while  *)
(* sites are being created: a row takes its id at INSERT and is seen at    *)
(* COMMIT, so ids do not appear in order.                                  *)
(***************************************************************************)
EXTENDS Envelope, Sequences, SequencesExt

CONSTANTS
    Slugs,          \* the slugs in use
    Seeds,          \* rows `sites` holds before the behaviour starts, in id order
    PageSize,       \* the limit both callers ask for
    MaxSites,       \* bound: rows ever inserted
    MaxFetches      \* bound: GETs on their way at a time

ASSUME ListingAssumption ==
    /\ Seeds \in Seq(Slugs) /\ IsInjective(Seeds) /\ Len(Seeds) <= MaxSites
    /\ {PageSize, MaxSites, MaxFetches} \subseteq Nat
    /\ PageSize > 0

VARIABLES
    rows,           \* every INSERT INTO sites, by id
    walk,           \* React state of the table
    fetches,        \* the GETs on their way
    high,           \* the last id a page of this walk returned (history)
    passed,         \* ids committed after the walk had read beyond them (history)
    due             \* rows there were when the last page was read (history)

listingVars == <<rows, walk, fetches, high, passed, due>>

RowNo == 1..MaxSites
Cursor == {0} \union RowNo       \* 0: null
NoFetch == [pc |-> "free", after |-> 0, page |-> <<>>, next |-> 0]
NoWalk == [shown |-> <<>>, cursor |-> 0, loading |-> FALSE, status |-> "first"]

ListingTypeOK ==
    /\ rows \in Seq([slug : Slugs, state : {"open", "live", "gone"}])
    /\ Len(rows) <= MaxSites
    /\ walk \in [shown : Seq(RowNo), cursor : Cursor, loading : BOOLEAN,
                 status : {"first", "shown", "error"}]
    /\ Len(walk.shown) <= MaxSites
    /\ fetches \in [1..MaxFetches -> [pc : {"free", "sent", "read"}, after : Cursor,
                                      page : Seq(RowNo), next : Cursor]]
    /\ high \in Cursor /\ passed \subseteq RowNo /\ due \subseteq RowNo

ListingInit ==
    /\ rows = [id \in DOMAIN Seeds |-> [slug |-> Seeds[id], state |-> "live"]]
    /\ walk = NoWalk
    /\ fetches = [f \in 1..MaxFetches |-> NoFetch]
    /\ high = 0 /\ passed = {} /\ due = {}

Live == {id \in DOMAIN rows : rows[id].state = "live"}

-----------------------------------------------------------------------------
(* The table `sites`.                                                      *)

Taken(slug, state) == \E id \in DOMAIN rows : rows[id] = [slug |-> slug, state |-> state]

\* The unique index: an INSERT waits for an open one of the same slug.
InsertSite(slug) ==
    /\ Len(rows) < MaxSites
    /\ ~ Taken(slug, "open") /\ ~ Taken(slug, "live")
    /\ rows' = Append(rows, [slug |-> slug, state |-> "open"])

CommitSite(id) ==
    /\ rows' = [rows EXCEPT ![id].state = "live"]
    /\ passed' = IF id < high THEN passed \union {id} ELSE passed

AbortSite(id) == rows' = [rows EXCEPT ![id].state = "gone"] /\ UNCHANGED passed

-----------------------------------------------------------------------------
(* MetricsService.listSites.                                               *)

\* SELECT ... WHERE id > after ORDER BY id LIMIT limit: the first committed ids
\* beyond the cursor, or all there are.
Selected(found, after, limit) ==
    LET beyond == {id \in Live : id > after} IN
    /\ \A i, j \in DOMAIN found : i < j => found[i] < found[j]
    /\ ToSet(found) \subseteq beyond
    /\ \A id \in beyond \ ToSet(found) : Len(found) = limit /\ Last(found) < id

\* The lookahead row only tells whether there is a next page; the cursor is the id
\* of the last row shown.
PageOf(found) ==
    LET hasNext == Len(found) > PageSize
        data == IF hasNext THEN Front(found) ELSE found
    IN  [data |-> data, next |-> IF hasNext THEN Last(data) ELSE 0]

\* The one statement is a snapshot of the committed rows; it asks for one row more
\* than a page has.
ListRead(f) ==
    /\ fetches[f].pc = "sent"
    /\ \E n \in 0..(PageSize + 1) : \E found \in [1..n -> RowNo] :
          LET page == PageOf(found) IN
          /\ Selected(found, fetches[f].after, PageSize + 1)
          /\ fetches' = [fetches EXCEPT ![f] = [@ EXCEPT !.pc = "read", !.page = page.data,
                                                         !.next = page.next]]
          /\ high' = IF page.data = <<>> \/ Last(page.data) < high THEN high
                     ELSE Last(page.data)
          /\ due' = IF page.next = 0 THEN Live ELSE due
    /\ UNCHANGED <<rows, walk, passed, faults>>

-----------------------------------------------------------------------------
(* The dashboard.                                                          *)

Ask(after) ==
    \E f \in DOMAIN fetches :
        /\ \A g \in 1..f : fetches[g].pc = "free" <=> g = f
        /\ fetches' = [fetches EXCEPT ![f] = [NoFetch EXCEPT !.pc = "sent", !.after = after]]

\* The server component renders the first page.
FirstPage ==
    /\ walk.status = "first" /\ ~ walk.loading
    /\ Ask(0)
    /\ walk' = [walk EXCEPT !.loading = TRUE]
    /\ UNCHANGED <<rows, high, passed, due, faults>>

\* Mutant of LoadMore: the button is not disabled while a page is loading.
LoadMoreTwice ==
    /\ walk.status # "first" /\ walk.cursor # 0
    /\ Ask(walk.cursor)
    /\ walk' = [walk EXCEPT !.loading = TRUE, !.status = "shown"]
    /\ UNCHANGED <<rows, high, passed, due, faults>>

LoadMore ==
    /\ walk.status # "first" /\ walk.cursor # 0 /\ ~ walk.loading
    /\ Ask(walk.cursor)
    /\ walk' = [walk EXCEPT !.loading = TRUE, !.status = "shown"]
    /\ UNCHANGED <<rows, high, passed, due, faults>>

PageShown(f) ==
    /\ fetches[f].pc = "read"
    /\ walk' = [walk EXCEPT !.shown = @ \o fetches[f].page, !.cursor = fetches[f].next,
                            !.loading = FALSE, !.status = "shown"]
    /\ fetches' = [fetches EXCEPT ![f] = NoFetch]
    /\ UNCHANGED <<rows, high, passed, due, faults>>

\* The page that could not be had: rows and cursor stay, and with them the button;
\* without a first page there is no table.
PageFails(f) ==
    /\ fetches[f].pc # "free"
    /\ Fault("net")
    /\ walk' = [walk EXCEPT !.loading = FALSE, !.status = "error"]
    /\ fetches' = [fetches EXCEPT ![f] = NoFetch]
    /\ UNCHANGED <<rows, high, passed, due>>

\* The dashboard is opened anew.
OpenDashboard ==
    /\ walk.status # "first"
    /\ walk' = NoWalk
    /\ fetches' = [f \in DOMAIN fetches |-> NoFetch]
    /\ high' = 0 /\ passed' = {} /\ due' = {}
    /\ UNCHANGED <<rows, faults>>

ListingNext ==
    \/ FirstPage \/ LoadMore \/ OpenDashboard
    \/ \E f \in DOMAIN fetches : ListRead(f) \/ PageShown(f) \/ PageFails(f)

-----------------------------------------------------------------------------
\* No page repeats a site, and a walk that reached its end shows every site there
\* was when the last page was read, but for those committed behind its back: their
\* ids were passed before their COMMIT.
ListingIsExact ==
    /\ IsInjective(walk.shown)
    /\ walk.status = "shown" /\ walk.cursor = 0 /\ ~ walk.loading =>
          due \ passed \subseteq ToSet(walk.shown)

=============================================================================
