---------------------------- MODULE MetricsRead ----------------------------
(***************************************************************************)
(* GET /sites/:slug/metrics of one site and the row that polls it.         *)
(*                                                                         *)
(* MetricsService.getSiteMetrics reads in several statements of one READ   *)
(* COMMITTED transaction: now() is that of its BEGIN, the data is that of  *)
(* each statement.  Months already over come from site_monthly_emissions,  *)
(* or from the measurements when the row is stale; the rest of the         *)
(* measurements is the current month.  Meanwhile the consumer commits,     *)
(* the month ends, and the ETL (external) closes it.                       *)
(***************************************************************************)
EXTENDS Envelope, FiniteSets

CONSTANTS
    Months,         \* months of the site's calendar the behaviour spans
    MaxWire,        \* the largest total the contract can carry (12 integer digits)
    Polls,          \* polls that may overlap: an interval does not wait
    MaxBatches      \* bound: batches the consumer commits, of one kg each

ASSUME MetricsAssumption == Months \in Nat \ {0} /\ {MaxWire, MaxBatches} \subseteq Nat

VARIABLES
    month,          \* the month it is, by the site's clock
    kg,             \* measured, by month of recorded_at
    monthly,        \* site_monthly_emissions
    handling,       \* the consumer's batch: the month it captured as now, the month it is for
    polls,          \* the requests of the row
    row,            \* what the row shows
    skipped         \* months closed before a batch for them that does not mark them (history)

metricsVars == <<month, kg, monthly, handling, polls, row, skipped>>

MonthNo == 1..Months
Kg == 0..MaxBatches
NoRow == [total |-> 0, stale |-> FALSE, there |-> FALSE]
NoBatch == [captured |-> 0, for |-> 0]
NoPoll == [pc |-> "idle", boundary |-> 0, prior |-> 0, current |-> 0, floor |-> 0]
NoReading == [status |-> "loading", prior |-> 0, current |-> 0]

MetricsTypeOK ==
    /\ month \in MonthNo
    /\ kg \in [MonthNo -> Kg]
    /\ monthly \in [MonthNo -> [total : Kg, stale : BOOLEAN, there : BOOLEAN]]
    /\ handling \in [captured : MonthNo, for : MonthNo] \union {NoBatch}
    /\ polls \in [Polls -> [pc : {"idle", "begun", "prior", "answered"},
                            boundary : {0} \union MonthNo, prior : Kg, current : Kg, floor : Kg]]
    /\ row \in [status : {"loading", "error", "ok"}, prior : Kg, current : Kg]
    /\ skipped \subseteq MonthNo

MetricsInit ==
    /\ month = 1
    /\ kg = [m \in MonthNo |-> 0]
    /\ monthly = [m \in MonthNo |-> NoRow]
    /\ handling = NoBatch
    /\ polls = [p \in Polls |-> NoPoll]
    /\ row = NoReading
    /\ skipped = {}

\* A sum of totals counts their kilograms, numbered within each month.
Kilograms(f, months) == UNION {{m} \X (1..f[m]) : m \in months}
SumOver(f, months) == Cardinality(Kilograms(f, months))
Measured == SumOver(kg, MonthNo)

-----------------------------------------------------------------------------
(* The statements of getSiteMetrics.                                       *)

\* Mutant of PriorTotal: what a stale row holds counts as well.
PriorTotalTwice(boundary) ==
    LET closed == {m \in 1..(boundary - 1) : monthly[m].there}
    IN  SumOver([m \in MonthNo |-> monthly[m].total + IF monthly[m].stale THEN kg[m] ELSE 0],
                closed)

\* A stale row is computed anew, a clean one is taken as it is; a month without a
\* row counts nothing.
PriorTotal(boundary) ==
    LET closed == {m \in 1..(boundary - 1) : monthly[m].there}
    IN  SumOver([m \in MonthNo |-> IF monthly[m].stale THEN kg[m] ELSE monthly[m].total], closed)

\* Everything recorded since the month began, the future included.
CurrentTotal(boundary) == SumOver(kg, boundary..Months)

\* What a read with nothing in its way would answer now.
Effective == PriorTotal(month) + CurrentTotal(month)

Begins(p) ==
    polls' = [polls EXCEPT ![p] = [NoPoll EXCEPT !.pc = "begun", !.boundary = month,
                                                 !.floor = Effective]]

ReadPrior(p) ==
    /\ polls[p].pc = "begun"
    /\ polls' = [polls EXCEPT ![p].pc = "prior", ![p].prior = PriorTotal(polls[p].boundary)]
    /\ UNCHANGED <<month, kg, monthly, handling, row, skipped, faults>>

\* Mutant of ReadCurrent: the month is asked for again.
ReadCurrentAnew(p) ==
    /\ polls[p].pc = "prior"
    /\ polls' = [polls EXCEPT ![p].pc = "answered", ![p].current = CurrentTotal(month)]
    /\ UNCHANGED <<month, kg, monthly, handling, row, skipped, faults>>

ReadCurrent(p) ==
    /\ polls[p].pc = "prior"
    /\ polls' = [polls EXCEPT ![p].pc = "answered",
                              ![p].current = CurrentTotal(polls[p].boundary)]
    /\ UNCHANGED <<month, kg, monthly, handling, row, skipped, faults>>

-----------------------------------------------------------------------------
(* SiteMetricsRow.                                                         *)

\* Mutant of PollStarts: the row polls until it has a reading.
PollStartsOnce(p) ==
    /\ polls[p].pc = "idle" /\ row.status # "ok"
    /\ Begins(p)
    /\ UNCHANGED <<month, kg, monthly, handling, row, skipped, faults>>

\* Every five seconds, whatever became of the last poll.
PollStarts(p) ==
    /\ polls[p].pc = "idle"
    /\ Begins(p)
    /\ UNCHANGED <<month, kg, monthly, handling, row, skipped, faults>>

\* A total the contract cannot carry is a misshapen answer to the row.
Shown(prior, current) ==
    IF prior + current > MaxWire THEN [NoReading EXCEPT !.status = "error"]
    ELSE [status |-> "ok", prior |-> prior, current |-> current]

\* Polls may be answered out of order: the row shows whichever came last.
PollAnswered(p) ==
    /\ polls[p].pc = "answered"
    /\ row' = Shown(polls[p].prior, polls[p].current)
    /\ polls' = [polls EXCEPT ![p] = NoPoll]
    /\ UNCHANGED <<month, kg, monthly, handling, skipped, faults>>

PollFails(p) ==
    /\ polls[p].pc # "idle"
    /\ Fault("net")
    /\ row' = [NoReading EXCEPT !.status = "error"]
    /\ polls' = [polls EXCEPT ![p] = NoPoll]
    /\ UNCHANGED <<month, kg, monthly, handling, skipped>>

-----------------------------------------------------------------------------
(* What happens to the data meanwhile.                                     *)

\* The consumer takes "now" before the transaction; a batch may be of any month.
BatchCaptured ==
    /\ handling = NoBatch /\ Measured < MaxBatches
    /\ \E m \in MonthNo : handling' = [captured |-> month, for |-> m]
    /\ UNCHANGED <<month, kg, monthly, polls, row, skipped, faults>>

Marked(b) == b.for < b.captured

\* Mutant of BatchCommitted: a row that is there is not marked again.
BatchCommittedOnce ==
    /\ handling # NoBatch
    /\ kg' = [kg EXCEPT ![handling.for] = @ + 1]
    /\ monthly' = IF Marked(handling) /\ ~ monthly[handling.for].there
                     THEN [monthly EXCEPT ![handling.for].stale = TRUE,
                                          ![handling.for].there = TRUE]
                     ELSE monthly
    /\ skipped' = skipped \union {m \in {handling.for} : monthly[m].there /\ ~ Marked(handling)}
    /\ handling' = NoBatch
    /\ UNCHANGED <<month, polls, row, faults>>

\* One transaction: the rows, and markMonthsStale for a month before the captured
\* one (an existing row keeps its total).
BatchCommitted ==
    /\ handling # NoBatch
    /\ kg' = [kg EXCEPT ![handling.for] = @ + 1]
    /\ monthly' = IF Marked(handling)
                     THEN [monthly EXCEPT ![handling.for].stale = TRUE,
                                          ![handling.for].there = TRUE]
                     ELSE monthly
    /\ skipped' = skipped \union {m \in {handling.for} : monthly[m].there /\ ~ Marked(handling)}
    /\ handling' = NoBatch
    /\ UNCHANGED <<month, polls, row, faults>>

BatchDropped ==
    /\ handling # NoBatch
    /\ Fault("db")
    /\ handling' = NoBatch
    /\ UNCHANGED <<month, kg, monthly, polls, row, skipped>>

MonthEnds ==
    /\ month < Months
    /\ month' = month + 1
    /\ UNCHANGED <<kg, monthly, handling, polls, row, skipped, faults>>

\* The ETL closes a month that is over, or computes a stale one anew.
EtlCloses(m) ==
    /\ m < month /\ (monthly[m].stale \/ ~ monthly[m].there)
    /\ monthly' = [monthly EXCEPT ![m] = [total |-> kg[m], stale |-> FALSE, there |-> TRUE]]
    /\ skipped' = skipped \ {m}
    /\ UNCHANGED <<month, kg, handling, polls, row, faults>>

PollNext(p) ==
    PollStarts(p) \/ ReadPrior(p) \/ ReadCurrent(p) \/ PollAnswered(p) \/ PollFails(p)
MetricsNext ==
    \/ BatchCaptured \/ BatchCommitted \/ BatchDropped \/ MonthEnds
    \/ \E m \in MonthNo : EtlCloses(m)
    \/ \E p \in Polls : PollNext(p)

-----------------------------------------------------------------------------
(* Properties.                                                             *)

\* The statements see different data, yet their sum is one the site could have
\* had: no less than a read at BEGIN would have answered, no more than what is
\* measured by now.  A month that ends meanwhile is neither lost nor counted twice.
ReadingIsBetween ==
    \A p \in Polls : polls[p].pc = "answered" =>
        /\ polls[p].floor <= polls[p].prior + polls[p].current
        /\ polls[p].prior + polls[p].current <= Measured

\* A closed month that nothing marks stale has its exact total, unless the ETL
\* closed it between a batch's capture of the month and its COMMIT.
ClosedMonthsAreExact ==
    \A m \in MonthNo : monthly[m].there /\ ~ monthly[m].stale =>
        monthly[m].total = kg[m] \/ m \in skipped

\* The row comes to show what a read would answer, and stays there: polls that
\* fail or overtake each other are mended by later ones.
RowCatchesUp == <>[](row = Shown(PriorTotal(month), CurrentTotal(month)))

=============================================================================
