---------------------------- MODULE RelaysProofs ----------------------------
(***************************************************************************)
(* Theorems about the relays and the alerting service together.  Each      *)
(* relay takes the lemmas about its table from RelayTableProofs, with what *)
(* its other side has received.                                            *)
(***************************************************************************)
EXTENDS Relays, AlertReceiverProofs, FiniteSetTheorems

Counted == {r \in MetricsIds : added[r] > 0}

OutboxRows == INSTANCE RelayTableProofs WITH
    table <- outbox, work <- outboxWork, sent <- outboxSent, undone <- outboxUndone,
    Workers <- OutboxWorkers, BatchSize <- OutboxBatch, Freeze <- Day, reached <- heard
MetricsRows == INSTANCE RelayTableProofs WITH
    table <- metricsOutbox, work <- metricsWork, sent <- metricsSent,
    undone <- metricsUndone, Workers <- MetricsWorkers, BatchSize <- MetricsBatch,
    Freeze <- Day, reached <- Counted
AlertRows == INSTANCE RelayTableProofs WITH
    table <- systemAlerts, work <- alertWork, sent <- alertSent, undone <- alertUndone,
    Workers <- AlertWorkers, BatchSize <- AlertBatch, Freeze <- Year, reached <- paged

-----------------------------------------------------------------------------
(* The inductive invariant.                                                *)

TablesInv ==
    /\ OutboxRows!TableInv(OutboxIds)
    /\ MetricsRows!TableInv(MetricsIds)
    /\ AlertRows!TableInv(AlertIds)
    /\ faults \in 0..MaxFaults

\* What may still arrive was sent from a row.
MailKnown == mail \subseteq DOMAIN outbox /\ pages \subseteq DOMAIN systemAlerts

\* An event that was heard, by whichever answer, was logged if it counted.
HeardLogged ==
    \A r \in heard : EventOf[r].inserted > 0 => \E line \in logged : line.event = r

\* A guard key stands for an addition.  While a row is pending, each addition but
\* the one its guard stands for has a guard that lapsed.
GuardsCount ==
    \A r \in MetricsIds :
        /\ guard[r] > 0 => added[r] > 0
        /\ added[r] <= 1 + lapsed[r]
        /\ guard[r] = 0 /\ r \notin MetricsRows!Delivered => added[r] <= lapsed[r]

RelaysInv == /\ TablesInv /\ MailKnown
             /\ ReceiverInv /\ HeardLogged
             /\ RedisTypeOK /\ GuardsCount
             /\ ExhaustionIsReported

-----------------------------------------------------------------------------
(* The steps of the three relays are those of RelayTableProofs.            *)

LEMMA OutboxSteps ==
    /\ \A w : Outbox!Tick(w) => OutboxRows!Tick(w)
    /\ \A w, r, answer : Outbox!Sent(w, r, answer) => OutboxRows!Sent(w, r, answer)
    /\ \A w : Outbox!Commit(w) => OutboxRows!Commit(w)
    /\ \A w, flying : Outbox!Rollback(w, flying) =>
          OutboxRows!RollsBack(w) /\ flying \subseteq outboxWork[w].todo
    /\ \A more : Outbox!Insert(more) => OutboxRows!Insert(more)
    /\ Outbox!Elapse => OutboxRows!Elapse
    /\ \A ids : Outbox!TableTypeOK(ids) <=> OutboxRows!TableTypeOK(ids)
    /\ Outbox!SendsAccounted <=> OutboxRows!SendsAccounted
  <1> USE DEF Outbox!Idle, OutboxRows!Idle, Outbox!Handled, OutboxRows!Handled, Outbox!Held, OutboxRows!Held
  <1>1. \A w : Outbox!Tick(w) => OutboxRows!Tick(w)
    BY DEF Outbox!Tick, OutboxRows!Tick, Outbox!Free, OutboxRows!Free, Outbox!Due,
           OutboxRows!Due, Outbox!Locked, OutboxRows!Locked, Outbox!Cardinality,
           OutboxRows!Cardinality
  <1>2. \A w, r, answer : Outbox!Sent(w, r, answer) => OutboxRows!Sent(w, r, answer)
    BY DEF Outbox!Sent, OutboxRows!Sent
  <1>3. \A w : Outbox!Commit(w) => OutboxRows!Commit(w)
    BY DEF Outbox!Commit, OutboxRows!Commit, Outbox!Complete, OutboxRows!Complete,
           Outbox!CommittedRow, OutboxRows!CommittedRow, Outbox!Failed,
           OutboxRows!Failed, Outbox!Rest, OutboxRows!Rest
  <1>4. \A w, flying : Outbox!Rollback(w, flying) =>
            OutboxRows!RollsBack(w) /\ flying \subseteq outboxWork[w].todo
    BY DEF Outbox!Rollback, OutboxRows!RollsBack, OutboxRows!Rollback, Outbox!UnderWay, OutboxRows!UnderWay,
           Outbox!OnceMore, OutboxRows!OnceMore
  <1>5. \A more : Outbox!Insert(more) => OutboxRows!Insert(more)
    BY DEF Outbox!Insert, OutboxRows!Insert, Outbox!NewRow, OutboxRows!NewRow
  <1>6. Outbox!Elapse => OutboxRows!Elapse
    BY DEF Outbox!Elapse, OutboxRows!Elapse
  <1>7. \A ids : Outbox!TableTypeOK(ids) <=> OutboxRows!TableTypeOK(ids)
    BY DEF Outbox!TableTypeOK, OutboxRows!TableTypeOK, Outbox!Row, OutboxRows!Row
  <1>8. Outbox!SendsAccounted <=> OutboxRows!SendsAccounted
    BY DEF Outbox!SendsAccounted, OutboxRows!SendsAccounted, Outbox!Cardinality,
           OutboxRows!Cardinality
  <1> QED
    BY <1>1, <1>2, <1>3, <1>4, <1>5, <1>6, <1>7, <1>8

LEMMA MetricsSteps ==
    /\ \A w : Metrics!Tick(w) => MetricsRows!Tick(w)
    /\ \A w, r, answer : Metrics!Sent(w, r, answer) => MetricsRows!Sent(w, r, answer)
    /\ \A w : Metrics!Commit(w) => MetricsRows!Commit(w)
    /\ \A w, flying : Metrics!Rollback(w, flying) =>
          MetricsRows!RollsBack(w) /\ flying \subseteq metricsWork[w].todo
    /\ \A more : Metrics!Insert(more) => MetricsRows!Insert(more)
    /\ Metrics!Elapse => MetricsRows!Elapse
    /\ \A ids : Metrics!TableTypeOK(ids) <=> MetricsRows!TableTypeOK(ids)
    /\ Metrics!SendsAccounted <=> MetricsRows!SendsAccounted
  <1> USE DEF Metrics!Idle, MetricsRows!Idle, Metrics!Handled, MetricsRows!Handled, Metrics!Held, MetricsRows!Held
  <1>1. \A w : Metrics!Tick(w) => MetricsRows!Tick(w)
    BY DEF Metrics!Tick, MetricsRows!Tick, Metrics!Free, MetricsRows!Free, Metrics!Due,
           MetricsRows!Due, Metrics!Locked, MetricsRows!Locked, Metrics!Cardinality,
           MetricsRows!Cardinality
  <1>2. \A w, r, answer : Metrics!Sent(w, r, answer) => MetricsRows!Sent(w, r, answer)
    BY DEF Metrics!Sent, MetricsRows!Sent
  <1>3. \A w : Metrics!Commit(w) => MetricsRows!Commit(w)
    BY DEF Metrics!Commit, MetricsRows!Commit, Metrics!Complete, MetricsRows!Complete,
           Metrics!CommittedRow, MetricsRows!CommittedRow, Metrics!Failed,
           MetricsRows!Failed, Metrics!Rest, MetricsRows!Rest
  <1>4. \A w, flying : Metrics!Rollback(w, flying) =>
            MetricsRows!RollsBack(w) /\ flying \subseteq metricsWork[w].todo
    BY DEF Metrics!Rollback, MetricsRows!RollsBack, MetricsRows!Rollback, Metrics!UnderWay, MetricsRows!UnderWay,
           Metrics!OnceMore, MetricsRows!OnceMore
  <1>5. \A more : Metrics!Insert(more) => MetricsRows!Insert(more)
    BY DEF Metrics!Insert, MetricsRows!Insert, Metrics!NewRow, MetricsRows!NewRow
  <1>6. Metrics!Elapse => MetricsRows!Elapse
    BY DEF Metrics!Elapse, MetricsRows!Elapse
  <1>7. \A ids : Metrics!TableTypeOK(ids) <=> MetricsRows!TableTypeOK(ids)
    BY DEF Metrics!TableTypeOK, MetricsRows!TableTypeOK, Metrics!Row, MetricsRows!Row
  <1>8. Metrics!SendsAccounted <=> MetricsRows!SendsAccounted
    BY DEF Metrics!SendsAccounted, MetricsRows!SendsAccounted, Metrics!Cardinality,
           MetricsRows!Cardinality
  <1> QED
    BY <1>1, <1>2, <1>3, <1>4, <1>5, <1>6, <1>7, <1>8

LEMMA AlertSteps ==
    /\ \A w : Alerts!Tick(w) => AlertRows!Tick(w)
    /\ \A w, r, answer : Alerts!Sent(w, r, answer) => AlertRows!Sent(w, r, answer)
    /\ \A w : Alerts!Commit(w) => AlertRows!Commit(w)
    /\ \A w, flying : Alerts!Rollback(w, flying) =>
          AlertRows!RollsBack(w) /\ flying \subseteq alertWork[w].todo
    /\ \A more : Alerts!Insert(more) => AlertRows!Insert(more)
    /\ Alerts!Elapse => AlertRows!Elapse
    /\ \A ids : Alerts!TableTypeOK(ids) <=> AlertRows!TableTypeOK(ids)
    /\ Alerts!SendsAccounted <=> AlertRows!SendsAccounted
  <1> USE DEF Alerts!Idle, AlertRows!Idle, Alerts!Handled, AlertRows!Handled, Alerts!Held, AlertRows!Held
  <1>1. \A w : Alerts!Tick(w) => AlertRows!Tick(w)
    BY DEF Alerts!Tick, AlertRows!Tick, Alerts!Free, AlertRows!Free, Alerts!Due,
           AlertRows!Due, Alerts!Locked, AlertRows!Locked, Alerts!Cardinality,
           AlertRows!Cardinality
  <1>2. \A w, r, answer : Alerts!Sent(w, r, answer) => AlertRows!Sent(w, r, answer)
    BY DEF Alerts!Sent, AlertRows!Sent
  <1>3. \A w : Alerts!Commit(w) => AlertRows!Commit(w)
    BY DEF Alerts!Commit, AlertRows!Commit, Alerts!Complete, AlertRows!Complete,
           Alerts!CommittedRow, AlertRows!CommittedRow, Alerts!Failed, AlertRows!Failed,
           Alerts!Rest, AlertRows!Rest
  <1>4. \A w, flying : Alerts!Rollback(w, flying) =>
            AlertRows!RollsBack(w) /\ flying \subseteq alertWork[w].todo
    BY DEF Alerts!Rollback, AlertRows!RollsBack, AlertRows!Rollback, Alerts!UnderWay, AlertRows!UnderWay,
           Alerts!OnceMore, AlertRows!OnceMore
  <1>5. \A more : Alerts!Insert(more) => AlertRows!Insert(more)
    BY DEF Alerts!Insert, AlertRows!Insert, Alerts!NewRow, AlertRows!NewRow
  <1>6. Alerts!Elapse => AlertRows!Elapse
    BY DEF Alerts!Elapse, AlertRows!Elapse
  <1>7. \A ids : Alerts!TableTypeOK(ids) <=> AlertRows!TableTypeOK(ids)
    BY DEF Alerts!TableTypeOK, AlertRows!TableTypeOK, Alerts!Row, AlertRows!Row
  <1>8. Alerts!SendsAccounted <=> AlertRows!SendsAccounted
    BY DEF Alerts!SendsAccounted, AlertRows!SendsAccounted, Alerts!Cardinality,
           AlertRows!Cardinality
  <1> QED
    BY <1>1, <1>2, <1>3, <1>4, <1>5, <1>6, <1>7, <1>8

-----------------------------------------------------------------------------
(* Every step of the system is one that RelayTableProofs knows, for each of *)
(* the three tables.                                                       *)

LEMMA FaultsGrow ==
    ASSUME faults \in 0..MaxFaults, [RelaysNext]_relayVars
    PROVE  faults' \in 0..MaxFaults /\ faults \in Nat /\ faults' \in Nat /\ faults <= faults'
  <1>1. ASSUME NEW w \in OutboxWorkers, OutboxStep(w) \/ OutboxCommits(w) \/ OutboxFault(w)
        PROVE  faults' = faults \/ \E kind : Fault(kind)
    BY <1>1 DEF OutboxStep, OutboxCommits, OutboxFault, OutboxTick, DeliverEvent,
       OutboxCommit, DeliverEventFails, OutboxRollback
  <1>2. ASSUME NEW w \in MetricsWorkers, MetricsStep(w) \/ MetricsCommits(w) \/ MetricsFault(w)
        PROVE  faults' = faults \/ \E kind : Fault(kind)
    BY <1>2 DEF MetricsStep, MetricsCommits, MetricsFault, MetricsTick, ApplyRow,
       MetricsCommit, ApplyRowThrows, MetricsRollback
  <1>3. ASSUME NEW w \in AlertWorkers, AlertStep(w) \/ AlertFault(w)
        PROVE  faults' = faults \/ \E kind : Fault(kind)
    BY <1>3 DEF AlertStep, AlertFault, AlertTick, DeliverAlert, AlertCommit,
       DeliverAlertFails, AlertRollback
  <1>4. ASSUME LateMail \/ ReceiverRestarts \/ TimePasses
        PROVE  faults' = faults \/ \E kind : Fault(kind)
    BY <1>4 DEF LateMail, MailArrives, PageArrives, ReceiverRestarts, RestartReceiver,
       TimePasses
  <1>5. faults' = faults \/ \E kind : Fault(kind)
    BY <1>1, <1>2, <1>3, <1>4 DEF RelaysNext, relayVars
  <1> QED
    BY <1>5, FailuresAssumption DEF Fault

LEMMA OutboxAdvances ==
    ASSUME RelaysInv, [RelaysNext]_relayVars
    PROVE  OutboxRows!Touch(OutboxIds) /\ OutboxRows!Progress
  <1>f. faults \in Nat /\ faults' \in Nat /\ faults <= faults'
    BY FaultsGrow DEF RelaysInv, TablesInv
  <1>h. heard \subseteq DOMAIN outbox /\ mail \subseteq DOMAIN outbox
    BY DEF RelaysInv, MailKnown, TablesInv, OutboxRows!TableInv, OutboxRows!ReachedFirst
  <1>g. ASSUME heard' = heard \/ \E r \in DOMAIN outbox : heard' = heard \union {r}
        PROVE  OutboxRows!Progress
    BY <1>f, <1>h, <1>g DEF OutboxRows!Progress
  <1>u. UNCHANGED outboxVars => OutboxRows!Touch(OutboxIds)
    BY DEF outboxVars, OutboxRows!Touch
  <1>t. ASSUME NEW w \in OutboxWorkers PROVE outboxWork[w].todo \subseteq DOMAIN outbox
    BY DEF RelaysInv, TablesInv, OutboxRows!TableInv, OutboxRows!TableTypeOK
  <1>1. ASSUME NEW w \in OutboxWorkers, OutboxStep(w)
        PROVE  OutboxRows!Touch(OutboxIds) /\ OutboxRows!Progress
    <2>1. CASE OutboxTick(w)
      BY <1>g, <2>1, OutboxSteps DEF OutboxTick, OutboxRows!Touch
    <2>2. ASSUME NEW r \in outboxWork[w].todo, DeliverEvent(w, r)
          PROVE  OutboxRows!Touch(OutboxIds) /\ OutboxRows!Progress
      <3>1. r \in DOMAIN outbox /\ heard' = heard \union {r} /\ OutboxRows!Sent(w, r, "ok")
        BY <1>t, <2>2, OutboxSteps DEF DeliverEvent
      <3> QED
        BY <1>g, <3>1 DEF OutboxRows!Touch
    <2> QED
      BY <1>1, <2>1, <2>2 DEF OutboxStep
  <1>2. ASSUME NEW w \in OutboxWorkers, OutboxCommits(w)
        PROVE  OutboxRows!Touch(OutboxIds) /\ OutboxRows!Progress
    BY <1>g, <1>2, OutboxSteps DEF OutboxCommits, OutboxCommit, OutboxRows!Touch
  <1>3. ASSUME NEW w \in OutboxWorkers, OutboxFault(w)
        PROVE  OutboxRows!Touch(OutboxIds) /\ OutboxRows!Progress
    <2>1. CASE OutboxRollback(w)
      BY <1>g, <2>1, OutboxSteps DEF OutboxRollback, OutboxRows!Touch
    <2>2. ASSUME NEW r \in outboxWork[w].todo, DeliverEventFails(w, r)
          PROVE  OutboxRows!Touch(OutboxIds) /\ OutboxRows!Progress
      <3>1. r \in DOMAIN outbox /\ heard' = heard /\ OutboxRows!Sent(w, r, "bad")
            /\ faults < faults'
        BY <1>f, <1>t, <2>2, OutboxSteps DEF DeliverEventFails, Fault
      <3> QED
        BY <1>g, <3>1 DEF OutboxRows!Touch
    <2> QED
      BY <1>3, <2>1, <2>2 DEF OutboxFault
  <1>4. ASSUME NEW w, \/ MetricsStep(w) \/ MetricsCommits(w) \/ MetricsFault(w)
                      \/ AlertStep(w) \/ AlertFault(w)
        PROVE  OutboxRows!Touch(OutboxIds) /\ OutboxRows!Progress
    BY <1>g, <1>u, <1>4 DEF MetricsStep, MetricsCommits, MetricsFault, AlertStep, AlertFault
  <1>5. CASE LateMail
    <2>1. heard' = heard \/ \E r \in DOMAIN outbox : heard' = heard \union {r}
      BY <1>h, <1>5 DEF LateMail, MailArrives
    <2>2. UNCHANGED outboxVars
      BY <1>5 DEF LateMail, MailArrives
    <2> QED
      BY <1>g, <1>u, <2>1, <2>2
  <1>6. CASE ReceiverRestarts
    BY <1>g, <1>u, <1>6 DEF ReceiverRestarts
  <1>7. CASE TimePasses
    BY <1>g, <1>7, OutboxSteps DEF TimePasses, OutboxRows!Touch
  <1>8. CASE UNCHANGED relayVars
    BY <1>g, <1>u, <1>8 DEF relayVars
  <1> QED
    BY <1>1, <1>2, <1>3, <1>4, <1>5, <1>6, <1>7, <1>8 DEF RelaysNext

\* What the script adds, and where.
LEMMA IncrementCounts ==
    ASSUME RedisTypeOK, GuardsCount, NEW r \in MetricsIds, ApplyIncrement(r)
    PROVE  /\ RedisTypeOK'
           /\ Counted' = Counted \union {r}
  <1>1. CASE guard[r] = 0
    BY <1>1, GuardAssumption DEF ApplyIncrement, RedisTypeOK, Counted
  <1>2. CASE guard[r] # 0
    BY <1>2 DEF ApplyIncrement, RedisTypeOK, GuardsCount, Counted
  <1> QED
    BY <1>1, <1>2

LEMMA MetricsAdvances ==
    ASSUME RelaysInv, [RelaysNext]_relayVars
    PROVE  MetricsRows!Touch(MetricsIds) /\ MetricsRows!Progress
  <1>f. faults \in Nat /\ faults' \in Nat /\ faults <= faults'
    BY FaultsGrow DEF RelaysInv, TablesInv
  <1>h. Counted \subseteq DOMAIN metricsOutbox
    BY DEF RelaysInv, TablesInv, MetricsRows!TableInv, MetricsRows!ReachedFirst
  <1>g. ASSUME Counted' = Counted \/ \E r \in DOMAIN metricsOutbox : Counted' = Counted \union {r}
        PROVE  MetricsRows!Progress
    BY <1>f, <1>h, <1>g DEF MetricsRows!Progress
  <1>r. UNCHANGED added => Counted' = Counted
    BY DEF Counted
  <1>u. UNCHANGED metricsVars => MetricsRows!Touch(MetricsIds)
    BY DEF metricsVars, MetricsRows!Touch
  <1>t. ASSUME NEW w \in MetricsWorkers
        PROVE  metricsWork[w].todo \subseteq DOMAIN metricsOutbox
               /\ DOMAIN metricsOutbox \subseteq MetricsIds
    BY DEF RelaysInv, TablesInv, MetricsRows!TableInv, MetricsRows!TableTypeOK
  <1>1. ASSUME NEW w \in MetricsWorkers, MetricsStep(w)
        PROVE  MetricsRows!Touch(MetricsIds) /\ MetricsRows!Progress
    <2>1. CASE MetricsTick(w)
      BY <1>g, <1>r, <2>1, MetricsSteps DEF MetricsTick, redisVars, MetricsRows!Touch
    <2>2. ASSUME NEW r \in metricsWork[w].todo, ApplyRow(w, r)
          PROVE  MetricsRows!Touch(MetricsIds) /\ MetricsRows!Progress
      <3>1. r \in DOMAIN metricsOutbox /\ MetricsRows!Sent(w, r, "ok")
        BY <1>t, <2>2, MetricsSteps DEF ApplyRow
      <3>2. Counted' = Counted \union {r}
        BY <1>t, <2>2, IncrementCounts DEF ApplyRow, RelaysInv
      <3> QED
        BY <1>g, <3>1, <3>2 DEF MetricsRows!Touch
    <2> QED
      BY <1>1, <2>1, <2>2 DEF MetricsStep
  <1>2. ASSUME NEW w \in MetricsWorkers, MetricsCommits(w)
        PROVE  MetricsRows!Touch(MetricsIds) /\ MetricsRows!Progress
    BY <1>g, <1>r, <1>2, MetricsSteps
       DEF MetricsCommits, MetricsCommit, redisVars, MetricsRows!Touch
  <1>3. ASSUME NEW w \in MetricsWorkers, MetricsFault(w)
        PROVE  MetricsRows!Touch(MetricsIds) /\ MetricsRows!Progress
    <2>1. CASE MetricsRollback(w)
      <3>1. PICK flying : /\ Metrics!Rollback(w, flying)
                          /\ UNCHANGED redisVars \/ \E r \in flying : ApplyIncrement(r)
        BY <2>1 DEF MetricsRollback
      <3>2. MetricsRows!RollsBack(w) /\ flying \subseteq metricsWork[w].todo
        BY <3>1, MetricsSteps
      <3>3. Counted' = Counted \/ \E r \in DOMAIN metricsOutbox : Counted' = Counted \union {r}
        BY <1>r, <1>t, <3>1, <3>2, IncrementCounts DEF RelaysInv, redisVars
      <3> QED
        BY <1>g, <3>2, <3>3 DEF MetricsRows!Touch
    <2>2. ASSUME NEW r \in metricsWork[w].todo, ApplyRowThrows(w, r)
          PROVE  MetricsRows!Touch(MetricsIds) /\ MetricsRows!Progress
      <3>1. r \in DOMAIN metricsOutbox /\ MetricsRows!Sent(w, r, "bad") /\ faults < faults'
        BY <1>f, <1>t, <2>2, MetricsSteps DEF ApplyRowThrows, Fault
      <3>2. Counted' = Counted \/ Counted' = Counted \union {r}
        BY <1>r, <1>t, <2>2, IncrementCounts DEF ApplyRowThrows, RelaysInv, redisVars
      <3> QED
        BY <1>g, <3>1, <3>2 DEF MetricsRows!Touch
    <2> QED
      BY <1>3, <2>1, <2>2 DEF MetricsFault
  <1>4. ASSUME NEW w, \/ OutboxStep(w) \/ OutboxCommits(w) \/ OutboxFault(w)
                      \/ AlertStep(w) \/ AlertFault(w)
        PROVE  MetricsRows!Touch(MetricsIds) /\ MetricsRows!Progress
    BY <1>g, <1>r, <1>u, <1>4
       DEF OutboxStep, OutboxCommits, OutboxFault, AlertStep, AlertFault, redisVars
  <1>5. CASE LateMail \/ ReceiverRestarts
    BY <1>g, <1>r, <1>u, <1>5 DEF LateMail, ReceiverRestarts, redisVars
  <1>6. CASE TimePasses
    <2>1. Counted' = Counted
      BY <1>6 DEF TimePasses, GuardsAge, Counted
    <2> QED
      BY <1>g, <1>6, <2>1, MetricsSteps DEF TimePasses, MetricsRows!Touch
  <1>7. CASE UNCHANGED relayVars
    BY <1>g, <1>r, <1>u, <1>7 DEF relayVars, redisVars
  <1> QED
    BY <1>1, <1>2, <1>3, <1>4, <1>5, <1>6, <1>7 DEF RelaysNext

\* The alerts of a commit are well typed: as many attempts as there were
\* failures, and one more that the open transaction has seen.
LEMMA OutboxAlertsTyped ==
    ASSUME TablesInv, NEW w \in OutboxWorkers
    PROVE  OutboxAlerts(w) \subseteq AlertIds
  <1> SUFFICES ASSUME NEW r \in outboxWork[w].bad, Outbox!Ended(outbox[r])
               PROVE  [from |-> "outbox", row |-> r, attempts |-> outbox[r].attempts + 1]
                          \in AlertIds
    BY DEF OutboxAlerts, Outbox!Exhausted
  <1>1. r \in DOMAIN outbox /\ DOMAIN outbox \subseteq OutboxIds
    BY DEF TablesInv, OutboxRows!TableInv, OutboxRows!TableTypeOK
  <1>2. outbox[r].attempts \in Nat /\ outbox[r].attempts < faults
    BY <1>1 DEF TablesInv, OutboxRows!TableInv, OutboxRows!TableTypeOK, OutboxRows!Row,
       OutboxRows!AttemptsAreFaults
  <1>3. outbox[r].attempts + 1 \in 1..MaxFaults
    BY <1>2, FailuresAssumption DEF TablesInv
  <1> QED
    BY <1>1, <1>3 DEF AlertIds

LEMMA MetricsAlertsTyped ==
    ASSUME TablesInv, NEW w \in MetricsWorkers
    PROVE  MetricsAlerts(w) \subseteq AlertIds
  <1> SUFFICES ASSUME NEW r \in metricsWork[w].bad, Metrics!Ended(metricsOutbox[r])
               PROVE  [from |-> "metrics", row |-> r, attempts |-> metricsOutbox[r].attempts + 1]
                          \in AlertIds
    BY DEF MetricsAlerts, Metrics!Exhausted
  <1>1. r \in DOMAIN metricsOutbox /\ DOMAIN metricsOutbox \subseteq MetricsIds
    BY DEF TablesInv, MetricsRows!TableInv, MetricsRows!TableTypeOK
  <1>2. metricsOutbox[r].attempts \in Nat /\ metricsOutbox[r].attempts < faults
    BY <1>1 DEF TablesInv, MetricsRows!TableInv, MetricsRows!TableTypeOK, MetricsRows!Row,
       MetricsRows!AttemptsAreFaults
  <1>3. metricsOutbox[r].attempts + 1 \in 1..MaxFaults
    BY <1>2, FailuresAssumption DEF TablesInv
  <1> QED
    BY <1>1, <1>3 DEF AlertIds

LEMMA AlertsAdvance ==
    ASSUME RelaysInv, [RelaysNext]_relayVars
    PROVE  AlertRows!Touch(AlertIds) /\ AlertRows!Progress
  <1>f. faults \in Nat /\ faults' \in Nat /\ faults <= faults'
    BY FaultsGrow DEF RelaysInv, TablesInv
  <1>h. paged \subseteq DOMAIN systemAlerts /\ pages \subseteq DOMAIN systemAlerts
    BY DEF RelaysInv, MailKnown, TablesInv, AlertRows!TableInv, AlertRows!ReachedFirst
  <1>g. ASSUME paged' = paged \/ \E a \in DOMAIN systemAlerts : paged' = paged \union {a}
        PROVE  AlertRows!Progress
    BY <1>f, <1>h, <1>g DEF AlertRows!Progress
  <1>u. UNCHANGED alertVars => AlertRows!Touch(AlertIds)
    BY DEF alertVars, AlertRows!Touch
  <1>t. ASSUME NEW w \in AlertWorkers PROVE alertWork[w].todo \subseteq DOMAIN systemAlerts
    BY DEF RelaysInv, TablesInv, AlertRows!TableInv, AlertRows!TableTypeOK
  <1>1. ASSUME NEW w \in AlertWorkers, AlertStep(w)
        PROVE  AlertRows!Touch(AlertIds) /\ AlertRows!Progress
    <2>1. CASE AlertTick(w) \/ AlertCommit(w)
      BY <1>g, <2>1, AlertSteps DEF AlertTick, AlertCommit, receiverVars, AlertRows!Touch
    <2>2. ASSUME NEW a \in alertWork[w].todo, DeliverAlert(w, a)
          PROVE  AlertRows!Touch(AlertIds) /\ AlertRows!Progress
      <3>1. a \in DOMAIN systemAlerts /\ paged' = paged \union {a}
            /\ AlertRows!Sent(w, a, "ok")
        BY <1>t, <2>2, AlertSteps DEF DeliverAlert, HandleSystem
      <3> QED
        BY <1>g, <3>1 DEF AlertRows!Touch
    <2> QED
      BY <1>1, <2>1, <2>2 DEF AlertStep
  <1>2. ASSUME NEW w \in AlertWorkers, AlertFault(w)
        PROVE  AlertRows!Touch(AlertIds) /\ AlertRows!Progress
    <2>1. CASE AlertRollback(w)
      BY <1>g, <2>1, AlertSteps DEF AlertRollback, receiverVars, AlertRows!Touch
    <2>2. ASSUME NEW a \in alertWork[w].todo, DeliverAlertFails(w, a)
          PROVE  AlertRows!Touch(AlertIds) /\ AlertRows!Progress
      <3>1. a \in DOMAIN systemAlerts /\ paged' = paged
            /\ AlertRows!Sent(w, a, "bad") /\ faults < faults'
        BY <1>f, <1>t, <2>2, AlertSteps DEF DeliverAlertFails, receiverVars, Fault
      <3> QED
        BY <1>g, <3>1 DEF AlertRows!Touch
    <2> QED
      BY <1>2, <2>1, <2>2 DEF AlertFault
  <1>3. ASSUME NEW w \in OutboxWorkers, OutboxCommits(w)
        PROVE  AlertRows!Touch(AlertIds) /\ AlertRows!Progress
    <2>1. AlertRows!Insert(OutboxAlerts(w)) /\ OutboxAlerts(w) \in SUBSET AlertIds
      BY <1>3, AlertSteps, OutboxAlertsTyped DEF OutboxCommits, RecordExhausted, RelaysInv
    <2> QED
      BY <1>g, <1>3, <2>1 DEF OutboxCommits, OutboxCommit, receiverVars, AlertRows!Touch
  <1>4. ASSUME NEW w \in MetricsWorkers, MetricsCommits(w)
        PROVE  AlertRows!Touch(AlertIds) /\ AlertRows!Progress
    <2>1. AlertRows!Insert(MetricsAlerts(w)) /\ MetricsAlerts(w) \in SUBSET AlertIds
      BY <1>4, AlertSteps, MetricsAlertsTyped DEF MetricsCommits, RecordExhausted, RelaysInv
    <2> QED
      BY <1>g, <1>4, <2>1 DEF MetricsCommits, receiverVars, AlertRows!Touch
  <1>5. ASSUME NEW w, \/ OutboxStep(w) \/ OutboxFault(w) \/ MetricsStep(w) \/ MetricsFault(w)
        PROVE  AlertRows!Touch(AlertIds) /\ AlertRows!Progress
    <2>1. UNCHANGED paged
      BY <1>5 DEF OutboxStep, OutboxFault, OutboxTick, DeliverEvent, DeliverEventFails,
         OutboxRollback, HandleBusiness, MetricsStep, MetricsFault, receiverVars
    <2> QED
      BY <1>g, <1>u, <1>5, <2>1 DEF OutboxStep, OutboxFault, MetricsStep, MetricsFault
  <1>6. CASE LateMail
    <2>1. paged' = paged \/ \E a \in DOMAIN systemAlerts : paged' = paged \union {a}
      BY <1>h, <1>6 DEF LateMail, MailArrives, PageArrives, HandleBusiness, HandleSystem
    <2>2. UNCHANGED alertVars
      BY <1>6 DEF LateMail, PageArrives
    <2> QED
      BY <1>g, <1>u, <2>1, <2>2
  <1>7. CASE ReceiverRestarts
    BY <1>g, <1>u, <1>7 DEF ReceiverRestarts, RestartReceiver
  <1>8. CASE TimePasses
    BY <1>g, <1>8, AlertSteps DEF TimePasses, receiverVars, AlertRows!Touch
  <1>9. CASE UNCHANGED relayVars
    BY <1>g, <1>u, <1>9 DEF relayVars, receiverVars
  <1> QED
    BY <1>1, <1>2, <1>3, <1>4, <1>5, <1>6, <1>7, <1>8, <1>9 DEF RelaysNext

LEMMA TablesNext ==
    ASSUME RelaysInv, [RelaysNext]_relayVars
    PROVE  TablesInv'
  <1>1. Day \in Nat /\ Year \in Nat
    BY RelayAssumption
  <1>2. OutboxRows!TableInv(OutboxIds)'
    BY <1>1, OutboxAdvances, OutboxRows!TableInvNext, RelayAssumption, FailuresAssumption
       DEF RelaysInv, TablesInv
  <1>3. MetricsRows!TableInv(MetricsIds)'
    BY <1>1, MetricsAdvances, MetricsRows!TableInvNext, RelayAssumption, FailuresAssumption
       DEF RelaysInv, TablesInv
  <1>4. AlertRows!TableInv(AlertIds)'
    BY <1>1, AlertsAdvance, AlertRows!TableInvNext, RelayAssumption, FailuresAssumption
       DEF RelaysInv, TablesInv
  <1>5. faults' \in 0..MaxFaults
    BY FaultsGrow DEF RelaysInv, TablesInv
  <1> QED
    BY <1>2, <1>3, <1>4, <1>5 DEF TablesInv

-----------------------------------------------------------------------------
(* The other sides.                                                        *)

LEMMA MailNext ==
    ASSUME RelaysInv, [RelaysNext]_relayVars
    PROVE  MailKnown'
  <1>1. DOMAIN outbox \subseteq DOMAIN outbox' /\ DOMAIN systemAlerts \subseteq DOMAIN systemAlerts'
    <2>1. Day \in Nat /\ Year \in Nat
      BY RelayAssumption
    <2>2. DOMAIN outbox \subseteq DOMAIN outbox'
      BY <2>1, OutboxAdvances, OutboxRows!RowsAdvance, RelayAssumption, FailuresAssumption
         DEF RelaysInv, TablesInv
    <2>3. DOMAIN systemAlerts \subseteq DOMAIN systemAlerts'
      BY <2>1, AlertsAdvance, AlertRows!RowsAdvance, RelayAssumption, FailuresAssumption
         DEF RelaysInv, TablesInv
    <2> QED
      BY <2>2, <2>3
  <1>t. /\ \A w \in OutboxWorkers : outboxWork[w].todo \subseteq DOMAIN outbox
        /\ \A w \in AlertWorkers : alertWork[w].todo \subseteq DOMAIN systemAlerts
    BY DEF RelaysInv, TablesInv, OutboxRows!TableInv, OutboxRows!TableTypeOK,
       AlertRows!TableInv, AlertRows!TableTypeOK
  <1>2. mail' \subseteq DOMAIN outbox
    <2>1. ASSUME NEW w \in OutboxWorkers, OutboxFault(w) PROVE mail' \subseteq DOMAIN outbox
      BY <1>t, <2>1, OutboxSteps
         DEF OutboxFault, DeliverEventFails, OutboxRollback, RelaysInv, MailKnown
    <2>2. ASSUME NEW w \in OutboxWorkers, OutboxStep(w) \/ OutboxCommits(w)
          PROVE  UNCHANGED mail
      BY <2>2 DEF OutboxStep, OutboxCommits, OutboxTick, DeliverEvent, OutboxCommit
    <2>3. ASSUME NEW w, \/ MetricsStep(w) \/ MetricsCommits(w) \/ MetricsFault(w)
                        \/ AlertStep(w) \/ AlertFault(w)
          PROVE  UNCHANGED mail
      BY <2>3 DEF MetricsStep, MetricsCommits, MetricsFault, AlertStep, AlertFault
    <2>4. ASSUME LateMail \/ ReceiverRestarts \/ TimePasses PROVE mail' \subseteq mail
      BY <2>4 DEF LateMail, MailArrives, ReceiverRestarts, TimePasses
    <2> QED
      BY <2>1, <2>2, <2>3, <2>4 DEF RelaysNext, relayVars, RelaysInv, MailKnown
  <1>3. pages' \subseteq DOMAIN systemAlerts
    <2>1. ASSUME NEW w \in AlertWorkers, AlertFault(w) PROVE pages' \subseteq DOMAIN systemAlerts
      BY <1>t, <2>1, AlertSteps
         DEF AlertFault, DeliverAlertFails, AlertRollback, RelaysInv, MailKnown
    <2>2. ASSUME NEW w \in AlertWorkers, AlertStep(w) PROVE UNCHANGED pages
      BY <2>2 DEF AlertStep, AlertTick, DeliverAlert, AlertCommit
    <2>3. ASSUME NEW w, \/ OutboxStep(w) \/ OutboxCommits(w) \/ OutboxFault(w)
                        \/ MetricsStep(w) \/ MetricsCommits(w) \/ MetricsFault(w)
          PROVE  UNCHANGED pages
      BY <2>3 DEF OutboxStep, OutboxCommits, OutboxFault, MetricsStep, MetricsCommits,
         MetricsFault
    <2>4. ASSUME LateMail \/ ReceiverRestarts \/ TimePasses PROVE pages' \subseteq pages
      BY <2>4 DEF LateMail, PageArrives, ReceiverRestarts, TimePasses
    <2> QED
      BY <2>1, <2>2, <2>3, <2>4 DEF RelaysNext, relayVars, RelaysInv, MailKnown
  <1> QED
    BY <1>1, <1>2, <1>3 DEF MailKnown

LEMMA ReceiverNext ==
    ASSUME RelaysInv, [RelaysNext]_relayVars
    PROVE  ReceiverInv' /\ HeardLogged'
  \* An event arrives, and may be one that was heard before.
  <1>a. ASSUME NEW r \in OutboxIds, HandleBusiness(r, EventOf[r]), heard' = heard \union {r}
        PROVE  ReceiverInv' /\ HeardLogged'
    <2>1. EventOf[r] \in Envelope
      BY EventAssumption
    <2>2. /\ ReceiverInv' /\ logged \subseteq logged'
          /\ EventOf[r].inserted > 0 => \E line \in logged' : line.event = r
      BY <1>a, <2>1, HandleBusinessKeeps DEF RelaysInv
    <2> QED
      BY <1>a, <2>2 DEF RelaysInv, HeardLogged
  <1>b. ASSUME UNCHANGED <<keys, raised, forgotten, logged, heard>>
        PROVE  ReceiverInv' /\ HeardLogged'
    BY <1>b, ReceiverRests DEF RelaysInv, HeardLogged
  <1>o. DOMAIN outbox \subseteq OutboxIds /\ mail \subseteq OutboxIds
        /\ \A w \in OutboxWorkers : outboxWork[w].todo \subseteq OutboxIds
    BY DEF RelaysInv, MailKnown, TablesInv, OutboxRows!TableInv, OutboxRows!TableTypeOK
  <1>1. ASSUME NEW w \in OutboxWorkers, OutboxStep(w) PROVE ReceiverInv' /\ HeardLogged'
    BY <1>a, <1>b, <1>o, <1>1 DEF OutboxStep, OutboxTick, DeliverEvent, receiverVars
  <1>2. ASSUME NEW w \in OutboxWorkers, OutboxCommits(w) \/ OutboxFault(w)
        PROVE  ReceiverInv' /\ HeardLogged'
    BY <1>b, <1>2 DEF OutboxCommits, OutboxCommit, OutboxFault, DeliverEventFails,
       OutboxRollback, receiverVars
  <1>3. ASSUME NEW w, MetricsStep(w) \/ MetricsCommits(w) \/ MetricsFault(w)
        PROVE  ReceiverInv' /\ HeardLogged'
    BY <1>b, <1>3 DEF MetricsStep, MetricsCommits, MetricsFault, receiverVars
  <1>4. ASSUME NEW w, AlertStep(w) \/ AlertFault(w)
        PROVE  ReceiverInv' /\ HeardLogged'
    BY <1>b, <1>4 DEF AlertStep, AlertFault, AlertTick, DeliverAlert, AlertCommit,
       DeliverAlertFails, AlertRollback, HandleSystem, receiverVars
  <1>5. CASE LateMail
    <2>1. ASSUME NEW r \in mail, MailArrives(r) PROVE ReceiverInv' /\ HeardLogged'
      BY <1>a, <1>o, <2>1 DEF MailArrives
    <2>2. ASSUME NEW a \in pages, PageArrives(a), UNCHANGED heard
          PROVE  ReceiverInv' /\ HeardLogged'
      BY <1>b, <2>2 DEF PageArrives, HandleSystem
    <2> QED
      BY <1>5, <2>1, <2>2 DEF LateMail
  <1>6. CASE ReceiverRestarts
    BY <1>6, RestartKeeps DEF ReceiverRestarts, RestartReceiver, RelaysInv, HeardLogged
  <1>7. CASE TimePasses \/ UNCHANGED relayVars
    BY <1>b, <1>7 DEF TimePasses, relayVars, receiverVars
  <1> QED
    BY <1>1, <1>2, <1>3, <1>4, <1>5, <1>6, <1>7 DEF RelaysNext

LEMMA RedisNext ==
    ASSUME RelaysInv, [RelaysNext]_relayVars
    PROVE  RedisTypeOK' /\ GuardsCount'
  <1>d. MetricsRows!Delivered \subseteq MetricsRows!Delivered'
    <2>1. Day \in Nat
      BY RelayAssumption
    <2> QED
      BY <2>1, MetricsAdvances, MetricsRows!RowsAdvance, RelayAssumption, FailuresAssumption
         DEF RelaysInv, TablesInv
  <1>t. RedisTypeOK /\ GuardsCount
    BY DEF RelaysInv
  <1>u. ASSUME UNCHANGED redisVars PROVE RedisTypeOK' /\ GuardsCount'
    BY <1>d, <1>t, <1>u DEF redisVars, RedisTypeOK, GuardsCount
  <1>i. ASSUME NEW w \in MetricsWorkers, NEW r \in metricsWork[w].todo, ApplyIncrement(r)
        PROVE  RedisTypeOK' /\ GuardsCount'
    <2>1. r \in MetricsIds /\ r \notin MetricsRows!Delivered
      BY DEF RelaysInv, TablesInv, MetricsRows!TableInv, MetricsRows!TableTypeOK,
         MetricsRows!HeldPending, MetricsRows!Held
    <2>2. RedisTypeOK'
      BY <1>i, <1>t, <2>1, IncrementCounts
    <2>3. CASE guard[r] # 0
      BY <1>i, <1>u, <2>3 DEF ApplyIncrement, redisVars
    <2>4. CASE guard[r] = 0
      <3>1. /\ guard' = [guard EXCEPT ![r] = GuardTtl] /\ added' = [added EXCEPT ![r] = @ + 1]
            /\ UNCHANGED lapsed
        BY <1>i, <2>4 DEF ApplyIncrement
      <3>2. ASSUME NEW q \in MetricsIds
            PROVE  /\ guard'[q] > 0 => added'[q] > 0
                   /\ added'[q] <= 1 + lapsed'[q]
                   /\ guard'[q] = 0 /\ q \notin MetricsRows!Delivered' => added'[q] <= lapsed'[q]
        <4>1. CASE q = r
          BY <1>t, <2>1, <2>4, <3>1, <4>1, GuardAssumption DEF RedisTypeOK, GuardsCount
        <4>2. CASE q # r
          BY <1>d, <1>t, <3>1, <4>2 DEF RedisTypeOK, GuardsCount
        <4> QED
          BY <4>1, <4>2
      <3> QED
        BY <2>2, <3>2 DEF GuardsCount
    <2> QED
      BY <2>3, <2>4
  <1>1. ASSUME NEW w \in MetricsWorkers, MetricsStep(w) PROVE RedisTypeOK' /\ GuardsCount'
    BY <1>i, <1>u, <1>1 DEF MetricsStep, MetricsTick, ApplyRow
  <1>2. ASSUME NEW w \in MetricsWorkers, MetricsFault(w) PROVE RedisTypeOK' /\ GuardsCount'
    <2>1. CASE MetricsRollback(w)
      <3>1. PICK flying : /\ Metrics!Rollback(w, flying)
                          /\ UNCHANGED redisVars \/ \E r \in flying : ApplyIncrement(r)
        BY <2>1 DEF MetricsRollback
      <3>2. flying \subseteq metricsWork[w].todo
        BY <3>1, MetricsSteps
      <3> QED
        BY <1>i, <1>u, <3>1, <3>2
    <2>2. CASE \E r \in metricsWork[w].todo : ApplyRowThrows(w, r)
      BY <1>i, <1>u, <2>2 DEF ApplyRowThrows
    <2> QED
      BY <1>2, <2>1, <2>2 DEF MetricsFault
  <1>3. ASSUME NEW w \in MetricsWorkers, MetricsCommits(w) PROVE RedisTypeOK' /\ GuardsCount'
    BY <1>u, <1>3 DEF MetricsCommits, MetricsCommit
  <1>4. ASSUME NEW w, \/ OutboxStep(w) \/ OutboxCommits(w) \/ OutboxFault(w)
                      \/ AlertStep(w) \/ AlertFault(w)
        PROVE  RedisTypeOK' /\ GuardsCount'
    BY <1>u, <1>4 DEF OutboxStep, OutboxCommits, OutboxFault, AlertStep, AlertFault
  <1>5. CASE LateMail \/ ReceiverRestarts \/ UNCHANGED relayVars
    BY <1>u, <1>5 DEF LateMail, ReceiverRestarts, relayVars
  <1>6. CASE TimePasses
    <2>1. /\ guard' = [r \in MetricsIds |-> IF guard[r] > 0 THEN guard[r] - 1 ELSE 0]
          /\ lapsed' = [r \in MetricsIds |->
                           lapsed[r] + IF guard[r] = 1 /\ r \in DOMAIN metricsOutbox
                                          /\ ~ metricsOutbox[r].delivered THEN 1 ELSE 0]
          /\ UNCHANGED added
      BY <1>6 DEF TimePasses, GuardsAge
    <2>2. RedisTypeOK'
      BY <1>t, <2>1, GuardAssumption DEF RedisTypeOK
    <2>3. ASSUME NEW r \in MetricsIds
          PROVE  /\ guard'[r] > 0 => added'[r] > 0
                 /\ added'[r] <= 1 + lapsed'[r]
                 /\ guard'[r] = 0 /\ r \notin MetricsRows!Delivered' => added'[r] <= lapsed'[r]
      <3>1. /\ guard[r] \in 0..GuardTtl /\ added[r] \in Nat /\ lapsed[r] \in Nat
            /\ guard[r] > 0 => added[r] > 0
            /\ added[r] <= 1 + lapsed[r]
            /\ guard[r] = 0 /\ r \notin MetricsRows!Delivered => added[r] <= lapsed[r]
        BY <1>t DEF RedisTypeOK, GuardsCount
      <3>2. added[r] > 0 => r \in DOMAIN metricsOutbox
        BY DEF RelaysInv, TablesInv, MetricsRows!TableInv, MetricsRows!ReachedFirst, Counted
      <3>3. r \notin MetricsRows!Delivered' => r \notin MetricsRows!Delivered
        BY <1>d
      <3>4. CASE guard[r] # 1
        BY <2>1, <3>1, <3>3, <3>4, GuardAssumption
      <3>5. CASE guard[r] = 1
        <4>1. r \notin MetricsRows!Delivered => lapsed'[r] = lapsed[r] + 1
          BY <2>1, <3>1, <3>2, <3>5 DEF MetricsRows!Delivered
        <4> QED
          BY <2>1, <3>1, <3>3, <3>5, <4>1
      <3> QED
        BY <3>4, <3>5
    <2> QED
      BY <2>2, <2>3 DEF GuardsCount
  <1> QED
    BY <1>1, <1>2, <1>3, <1>4, <1>5, <1>6 DEF RelaysNext

-----------------------------------------------------------------------------
(* The alerts about exhausted rows.                                        *)

\* The failures of a row that were reported, and one more.
Reported(from, row) == {a.attempts : a \in AlertsOf(from, row)}

LEMMA OneMoreAttempt ==
    ASSUME NEW n \in Nat
    PROVE  MaxAttempts..(n + 1) = (MaxAttempts..n) \union
               (IF n + 1 >= MaxAttempts THEN {n + 1} ELSE {})
  BY RelayAssumption

LEMMA NothingReported ==
    ASSUME DOMAIN systemAlerts' = DOMAIN systemAlerts, NEW from, NEW row
    PROVE  Reported(from, row)' = Reported(from, row)
  BY DEF Reported, AlertsOf

\* The alerts of a commit, and what a set of alerts says of a row.
AlertsAbout(from, table, frozen) ==
    {[from |-> from, row |-> r, attempts |-> table[r].attempts + 1] : r \in frozen}
ReportedIn(alerts, row) == {a.attempts : a \in {b \in alerts : b.row = row}}

LEMMA NewReports ==
    ASSUME NEW new, DOMAIN systemAlerts' = DOMAIN systemAlerts \union new,
           NEW from, from # "consumer", \A a \in new : a.from = from, NEW row
    PROVE  /\ Reported(from, row)' = Reported(from, row) \union ReportedIn(new, row)
           /\ \A other : other # from => Reported(other, row)' = Reported(other, row)
  <1>1. \A a \in new : a \notin ConsumerAlerts
    BY ConsumerAlertsAssumption
  <1>2. /\ AlertsOf(from, row)' = AlertsOf(from, row) \union {b \in new : b.row = row}
        /\ \A other : other # from => AlertsOf(other, row)' = AlertsOf(other, row)
    BY <1>1 DEF AlertsOf
  <1>3. \A S, T : {a.attempts : a \in S \union T} =
                      {a.attempts : a \in S} \union {a.attempts : a \in T}
    OBVIOUS
  <1>4. Reported(from, row)' = Reported(from, row) \union ReportedIn(new, row)
    BY <1>2, <1>3 DEF Reported, ReportedIn
  <1>5. \A other : other # from => Reported(other, row)' = Reported(other, row)
    BY <1>2 DEF Reported
  <1> QED
    BY <1>4, <1>5

\* A commit of one relay reports each row that it froze, once.
LEMMA FrozenAttempts ==
    ASSUME NEW from, NEW table, NEW frozen, NEW row
    PROVE  /\ \A a \in AlertsAbout(from, table, frozen) : a.from = from
           /\ ReportedIn(AlertsAbout(from, table, frozen), row) =
                  IF row \in frozen THEN {table[row].attempts + 1} ELSE {}
  <1> DEFINE new == AlertsAbout(from, table, frozen)
             alert == [from |-> from, row |-> row, attempts |-> table[row].attempts + 1]
             mine == {b \in new : b.row = row}
  <1>1. mine = IF row \in frozen THEN {alert} ELSE {}
    <2>1. ASSUME NEW b \in mine PROVE row \in frozen /\ b = alert
      BY DEF AlertsAbout
    <2>2. row \in frozen => alert \in mine
      BY DEF AlertsAbout
    <2> HIDE DEF mine, alert
    <2> QED
      BY <2>1, <2>2
  <1>2. alert.attempts = table[row].attempts + 1
    OBVIOUS
  <1>4. \A a \in new : a.from = from
    BY DEF AlertsAbout
  <1> HIDE DEF mine, alert
  <1>3. {a.attempts : a \in mine} = IF row \in frozen THEN {table[row].attempts + 1} ELSE {}
    BY <1>1, <1>2
  <1> QED
    BY <1>3, <1>4 DEF mine, ReportedIn

LEMMA ReportsInit == RelaysInit => ExhaustionIsReported
  <1> SUFFICES ASSUME RelaysInit PROVE ExhaustionIsReported
    OBVIOUS
  <1>1. DOMAIN systemAlerts \subseteq ConsumerAlerts
    BY DEF RelaysInit
  <1>2. \A from, row : {a.attempts : a \in AlertsOf(from, row)} = {}
    BY <1>1 DEF AlertsOf
  <1>3. MaxAttempts..0 = {}
    BY RelayAssumption
  <1>4. /\ \A r \in DOMAIN outbox : outbox[r].attempts = 0
        /\ \A r \in DOMAIN metricsOutbox : metricsOutbox[r].attempts = 0
    BY DEF RelaysInit, NewRow
  <1> QED
    BY <1>2, <1>3, <1>4 DEF ExhaustionIsReported

LEMMA ReportsNext ==
    ASSUME RelaysInv, [RelaysNext]_relayVars
    PROVE  ExhaustionIsReported'
  <1>o. OutboxRows!TableTypeOK(OutboxIds) /\ OutboxRows!PartsApart
    BY DEF RelaysInv, TablesInv, OutboxRows!TableInv
  <1>m. MetricsRows!TableTypeOK(MetricsIds) /\ MetricsRows!PartsApart
    BY DEF RelaysInv, TablesInv, MetricsRows!TableInv
  <1>a. AlertRows!TableTypeOK(AlertIds) /\ AlertRows!PartsApart
    BY DEF RelaysInv, TablesInv, AlertRows!TableInv
  <1>b. Day \in Nat /\ Year \in Nat
    BY RelayAssumption
  <1>n. /\ \A r \in DOMAIN outbox : outbox[r].attempts \in Nat
        /\ \A r \in DOMAIN metricsOutbox : metricsOutbox[r].attempts \in Nat
    BY <1>o, <1>m DEF OutboxRows!TableTypeOK, OutboxRows!Row, MetricsRows!TableTypeOK,
       MetricsRows!Row
  <1>r. /\ \A r \in DOMAIN outbox : Reported("outbox", r) = MaxAttempts..outbox[r].attempts
        /\ \A r \in DOMAIN metricsOutbox :
              Reported("metrics", r) = MaxAttempts..metricsOutbox[r].attempts
    BY DEF RelaysInv, ExhaustionIsReported, Reported
  \* What the two tables and the alerts must be after a step.
  <1>x. ExhaustionIsReported' <=>
            /\ \A r \in DOMAIN outbox' : Reported("outbox", r)' = MaxAttempts..outbox'[r].attempts
            /\ \A r \in DOMAIN metricsOutbox' :
                  Reported("metrics", r)' = MaxAttempts..metricsOutbox'[r].attempts
    BY DEF ExhaustionIsReported, Reported
  <1>q. ASSUME DOMAIN outbox' = DOMAIN outbox,
               \A r \in DOMAIN outbox : outbox'[r].attempts = outbox[r].attempts,
               DOMAIN metricsOutbox' = DOMAIN metricsOutbox,
               \A r \in DOMAIN metricsOutbox :
                   metricsOutbox'[r].attempts = metricsOutbox[r].attempts,
               DOMAIN systemAlerts' = DOMAIN systemAlerts
        PROVE  ExhaustionIsReported'
    BY <1>q, <1>r, <1>x, NothingReported
  <1>1. ASSUME NEW w \in OutboxWorkers, OutboxCommits(w) PROVE ExhaustionIsReported'
    <2>1. OutboxRows!Commit(w) /\ UNCHANGED metricsOutbox /\ Alerts!Insert(OutboxAlerts(w))
      BY <1>1, OutboxSteps DEF OutboxCommits, OutboxCommit, RecordExhausted, metricsVars
    <2>2. /\ DOMAIN outbox' = DOMAIN outbox
          /\ \A r \in DOMAIN outbox :
                outbox'[r].attempts =
                    IF r \in outboxWork[w].bad THEN outbox[r].attempts + 1 ELSE outbox[r].attempts
      BY <1>o, <1>b, <2>1, OutboxRows!CommitRows, RelayAssumption, FailuresAssumption
    <2> DEFINE frozen == {r \in outboxWork[w].bad : outbox[r].attempts + 1 >= MaxAttempts}
    <2>3. frozen \subseteq DOMAIN outbox
      BY <1>o DEF OutboxRows!TableTypeOK
    <2>4. /\ DOMAIN systemAlerts' = DOMAIN systemAlerts \union OutboxAlerts(w)
          /\ OutboxAlerts(w) = AlertsAbout("outbox", outbox, frozen)
      BY <2>1 DEF AlertsAbout, Alerts!Insert, OutboxAlerts, Outbox!Exhausted, Outbox!Ended
    <2>h. \A r : r \in frozen <=>
              r \in outboxWork[w].bad /\ outbox[r].attempts + 1 >= MaxAttempts
      OBVIOUS
    <2> HIDE DEF frozen
    <2>7. ASSUME NEW r
          PROVE  /\ Reported("outbox", r)' = Reported("outbox", r) \union
                        (IF r \in frozen THEN {outbox[r].attempts + 1} ELSE {})
                 /\ Reported("metrics", r)' = Reported("metrics", r)
      <3>1. /\ \A a \in OutboxAlerts(w) : a.from = "outbox"
            /\ ReportedIn(OutboxAlerts(w), r) =
                   IF r \in frozen THEN {outbox[r].attempts + 1} ELSE {}
        BY <2>4, FrozenAttempts
      <3>2. /\ Reported("outbox", r)' = Reported("outbox", r) \union ReportedIn(OutboxAlerts(w), r)
            /\ \A other : other # "outbox" => Reported(other, r)' = Reported(other, r)
        BY <2>4, <3>1, NewReports
      <3> QED
        BY <3>1, <3>2
    <2>5. ASSUME NEW r \in DOMAIN outbox
          PROVE  Reported("outbox", r)' = MaxAttempts..outbox'[r].attempts
      <3>1. Reported("outbox", r)' = Reported("outbox", r) \union
                (IF r \in frozen THEN {outbox[r].attempts + 1} ELSE {})
        BY <2>7
      <3>2. CASE r \in outboxWork[w].bad
        <4>1. MaxAttempts..(outbox[r].attempts + 1) = (MaxAttempts..outbox[r].attempts) \union
                  (IF outbox[r].attempts + 1 >= MaxAttempts THEN {outbox[r].attempts + 1} ELSE {})
          BY <1>n, OneMoreAttempt
        <4>2. r \in frozen <=> outbox[r].attempts + 1 >= MaxAttempts
          BY <2>h, <3>2
        <4> QED
          BY <1>r, <2>2, <3>1, <3>2, <4>1, <4>2
      <3>3. CASE r \notin outboxWork[w].bad
        BY <1>r, <2>2, <2>h, <3>1, <3>3
      <3> QED
        BY <3>2, <3>3
    <2>6. ASSUME NEW r \in DOMAIN metricsOutbox
          PROVE  Reported("metrics", r)' = MaxAttempts..metricsOutbox'[r].attempts
      <3>1. Reported("metrics", r)' = Reported("metrics", r)
        BY <2>7
      <3> QED
        BY <1>r, <2>1, <3>1
    <2> QED
      BY <1>x, <2>1, <2>2, <2>5, <2>6
  <1>2. ASSUME NEW w \in MetricsWorkers, MetricsCommits(w) PROVE ExhaustionIsReported'
    <2>1. MetricsRows!Commit(w) /\ UNCHANGED outbox /\ Alerts!Insert(MetricsAlerts(w))
      BY <1>2, MetricsSteps DEF MetricsCommits, MetricsCommit, RecordExhausted, outboxVars
    <2>2. /\ DOMAIN metricsOutbox' = DOMAIN metricsOutbox
          /\ \A r \in DOMAIN metricsOutbox :
                metricsOutbox'[r].attempts =
                    IF r \in metricsWork[w].bad THEN metricsOutbox[r].attempts + 1
                                                ELSE metricsOutbox[r].attempts
      BY <1>m, <1>b, <2>1, MetricsRows!CommitRows, RelayAssumption, FailuresAssumption
    <2> DEFINE frozen ==
            {r \in metricsWork[w].bad : metricsOutbox[r].attempts + 1 >= MaxAttempts}
    <2>3. frozen \subseteq DOMAIN metricsOutbox
      BY <1>m DEF MetricsRows!TableTypeOK
    <2>4. /\ DOMAIN systemAlerts' = DOMAIN systemAlerts \union MetricsAlerts(w)
          /\ MetricsAlerts(w) = AlertsAbout("metrics", metricsOutbox, frozen)
      BY <2>1 DEF AlertsAbout, Alerts!Insert, MetricsAlerts, Metrics!Exhausted, Metrics!Ended
    <2>h. \A r : r \in frozen <=>
              r \in metricsWork[w].bad /\ metricsOutbox[r].attempts + 1 >= MaxAttempts
      OBVIOUS
    <2> HIDE DEF frozen
    <2>7. ASSUME NEW r
          PROVE  /\ Reported("metrics", r)' = Reported("metrics", r) \union
                        (IF r \in frozen THEN {metricsOutbox[r].attempts + 1} ELSE {})
                 /\ Reported("outbox", r)' = Reported("outbox", r)
      <3>1. /\ \A a \in MetricsAlerts(w) : a.from = "metrics"
            /\ ReportedIn(MetricsAlerts(w), r) =
                   IF r \in frozen THEN {metricsOutbox[r].attempts + 1} ELSE {}
        <4>1. /\ \A a \in AlertsAbout("metrics", metricsOutbox, frozen) : a.from = "metrics"
              /\ ReportedIn(AlertsAbout("metrics", metricsOutbox, frozen), r) =
                     IF r \in frozen THEN {metricsOutbox[r].attempts + 1} ELSE {}
          BY FrozenAttempts
        <4> QED
          BY <2>4, <4>1
      <3>2. /\ Reported("metrics", r)' = Reported("metrics", r) \union ReportedIn(MetricsAlerts(w), r)
            /\ \A other : other # "metrics" => Reported(other, r)' = Reported(other, r)
        BY <2>4, <3>1, NewReports
      <3> QED
        BY <3>1, <3>2
    <2>5. ASSUME NEW r \in DOMAIN metricsOutbox
          PROVE  Reported("metrics", r)' = MaxAttempts..metricsOutbox'[r].attempts
      <3>1. Reported("metrics", r)' = Reported("metrics", r) \union
                (IF r \in frozen THEN {metricsOutbox[r].attempts + 1} ELSE {})
        BY <2>7
      <3>2. CASE r \in metricsWork[w].bad
        <4>1. MaxAttempts..(metricsOutbox[r].attempts + 1) =
                  (MaxAttempts..metricsOutbox[r].attempts) \union
                  (IF metricsOutbox[r].attempts + 1 >= MaxAttempts
                   THEN {metricsOutbox[r].attempts + 1} ELSE {})
          BY <1>n, OneMoreAttempt
        <4>2. r \in frozen <=> metricsOutbox[r].attempts + 1 >= MaxAttempts
          BY <2>h, <3>2
        <4> QED
          BY <1>r, <2>2, <3>1, <3>2, <4>1, <4>2
      <3>3. CASE r \notin metricsWork[w].bad
        BY <1>r, <2>2, <2>h, <3>1, <3>3
      <3> QED
        BY <3>2, <3>3
    <2>6. ASSUME NEW r \in DOMAIN outbox
          PROVE  Reported("outbox", r)' = MaxAttempts..outbox'[r].attempts
      <3>1. Reported("outbox", r)' = Reported("outbox", r)
        BY <2>7
      <3> QED
        BY <1>r, <2>1, <3>1
    <2> QED
      BY <1>x, <2>1, <2>2, <2>5, <2>6
  <1>3. ASSUME NEW w \in OutboxWorkers, OutboxStep(w) \/ OutboxFault(w)
        PROVE  ExhaustionIsReported'
    <2>1. /\ OutboxRows!Tick(w) \/ OutboxRows!RollsBack(w)
             \/ \E r, answer : OutboxRows!Sent(w, r, answer)
          /\ UNCHANGED <<metricsOutbox, systemAlerts>>
      BY <1>3, OutboxSteps DEF OutboxStep, OutboxFault, OutboxTick, DeliverEvent,
         DeliverEventFails, OutboxRollback, metricsVars, alertVars
    <2>2. /\ DOMAIN outbox' = DOMAIN outbox
          /\ \A r \in DOMAIN outbox : outbox'[r].attempts = outbox[r].attempts
      BY <1>o, <2>1, OutboxRows!AttemptsStay, RelayAssumption, FailuresAssumption
    <2> QED
      BY <1>q, <2>1, <2>2
  <1>4. ASSUME NEW w \in MetricsWorkers, MetricsStep(w) \/ MetricsFault(w)
        PROVE  ExhaustionIsReported'
    <2>1. /\ MetricsRows!Tick(w) \/ MetricsRows!RollsBack(w)
             \/ \E r, answer : MetricsRows!Sent(w, r, answer)
          /\ UNCHANGED <<outbox, systemAlerts>>
      BY <1>4, MetricsSteps DEF MetricsStep, MetricsFault, MetricsTick, ApplyRow,
         ApplyRowThrows, MetricsRollback, outboxVars, alertVars
    <2>2. /\ DOMAIN metricsOutbox' = DOMAIN metricsOutbox
          /\ \A r \in DOMAIN metricsOutbox :
                metricsOutbox'[r].attempts = metricsOutbox[r].attempts
      BY <1>m, <2>1, MetricsRows!AttemptsStay, RelayAssumption, FailuresAssumption
    <2> QED
      BY <1>q, <2>1, <2>2
  <1>5. ASSUME NEW w \in AlertWorkers, AlertStep(w) \/ AlertFault(w)
        PROVE  ExhaustionIsReported'
    <2>1. /\ \/ AlertRows!Tick(w) \/ AlertRows!RollsBack(w) \/ AlertRows!Commit(w)
             \/ \E r, answer : AlertRows!Sent(w, r, answer)
          /\ UNCHANGED <<outbox, metricsOutbox>>
      BY <1>5, AlertSteps DEF AlertStep, AlertFault, AlertTick, DeliverAlert, AlertCommit,
         DeliverAlertFails, AlertRollback, outboxVars, metricsVars
    <2>2. DOMAIN systemAlerts' = DOMAIN systemAlerts
      <3>1. CASE AlertRows!Commit(w)
        BY <1>a, <1>b, <3>1, AlertRows!CommitRows, RelayAssumption, FailuresAssumption
      <3>2. CASE ~ AlertRows!Commit(w)
        BY <1>a, <2>1, <3>2, AlertRows!AttemptsStay, RelayAssumption, FailuresAssumption
      <3> QED
        BY <3>1, <3>2
    <2> QED
      BY <1>q, <2>1, <2>2
  <1>6. CASE LateMail \/ ReceiverRestarts \/ UNCHANGED relayVars
    <2>1. UNCHANGED <<outbox, metricsOutbox, systemAlerts>>
      BY <1>6 DEF LateMail, MailArrives, PageArrives, ReceiverRestarts, relayVars, outboxVars,
         metricsVars, alertVars
    <2> QED
      BY <1>q, <2>1
  <1>7. CASE TimePasses
    <2>1. OutboxRows!Elapse /\ MetricsRows!Elapse /\ AlertRows!Elapse
      BY <1>7, OutboxSteps, MetricsSteps, AlertSteps DEF TimePasses
    <2>2. /\ DOMAIN outbox' = DOMAIN outbox
          /\ \A r \in DOMAIN outbox : outbox'[r].attempts = outbox[r].attempts
      BY <1>o, <2>1, OutboxRows!AttemptsStay, RelayAssumption, FailuresAssumption
    <2>3. /\ DOMAIN metricsOutbox' = DOMAIN metricsOutbox
          /\ \A r \in DOMAIN metricsOutbox :
                metricsOutbox'[r].attempts = metricsOutbox[r].attempts
      BY <1>m, <2>1, MetricsRows!AttemptsStay, RelayAssumption, FailuresAssumption
    <2>4. DOMAIN systemAlerts' = DOMAIN systemAlerts
      BY <1>a, <2>1, AlertRows!AttemptsStay, RelayAssumption, FailuresAssumption
    <2> QED
      BY <1>q, <2>2, <2>3, <2>4
  <1> QED
    BY <1>1, <1>2, <1>3, <1>4, <1>5, <1>6, <1>7 DEF RelaysNext

-----------------------------------------------------------------------------
(* The invariant.                                                          *)

LEMMA RelaysInvInit == RelaysInit => RelaysInv
  <1> SUFFICES ASSUME RelaysInit PROVE RelaysInv
    OBVIOUS
  <1>1. PICK b \in SUBSET OutboxIds, m \in SUBSET MetricsIds, a \in SUBSET ConsumerAlerts :
            /\ outbox = [r \in b |-> NewRow]
            /\ metricsOutbox = [r \in m |-> NewRow]
            /\ systemAlerts = [r \in a |-> NewRow]
    BY DEF RelaysInit
  <1>f. faults = 0 /\ faults \in Nat /\ faults \in 0..MaxFaults
    BY FailuresAssumption DEF RelaysInit
  <1>c. heard = {} /\ Counted = {} /\ paged = {}
    BY DEF RelaysInit, RedisInit, ReceiverInit, Counted
  <1>2. OutboxRows!TableInv(OutboxIds)
    <2>1. /\ outbox = [r \in b |-> OutboxRows!NewRow]
          /\ outboxWork = [w \in OutboxWorkers |-> OutboxRows!Idle]
          /\ outboxSent = [r \in OutboxIds |-> 0] /\ outboxUndone = outboxSent
      BY <1>1 DEF RelaysInit, NewRow, OutboxRows!NewRow, Outbox!Idle, OutboxRows!Idle
    <2> QED
      BY <1>f, <1>c, <2>1, OutboxRows!TableInvInit, RelayAssumption, FailuresAssumption
  <1>3. MetricsRows!TableInv(MetricsIds)
    <2>1. /\ metricsOutbox = [r \in m |-> MetricsRows!NewRow]
          /\ metricsWork = [w \in MetricsWorkers |-> MetricsRows!Idle]
          /\ metricsSent = [r \in MetricsIds |-> 0] /\ metricsUndone = metricsSent
      BY <1>1 DEF RelaysInit, NewRow, MetricsRows!NewRow, Metrics!Idle, MetricsRows!Idle
    <2> QED
      BY <1>f, <1>c, <2>1, MetricsRows!TableInvInit, RelayAssumption, FailuresAssumption
  <1>4. AlertRows!TableInv(AlertIds)
    <2>1. /\ systemAlerts = [r \in a |-> AlertRows!NewRow]
          /\ alertWork = [w \in AlertWorkers |-> AlertRows!Idle]
          /\ alertSent = [r \in AlertIds |-> 0] /\ alertUndone = alertSent
      BY <1>1 DEF RelaysInit, NewRow, AlertRows!NewRow, Alerts!Idle, AlertRows!Idle
    <2>2. a \in SUBSET AlertIds
      BY DEF AlertIds
    <2> QED
      BY <1>f, <1>c, <2>1, <2>2, AlertRows!TableInvInit, RelayAssumption, FailuresAssumption
  <1>5. MailKnown /\ HeardLogged /\ ReceiverInv /\ ExhaustionIsReported
    BY ReceiverInvInit, ReportsInit DEF RelaysInit, MailKnown, HeardLogged
  <1>6. RedisTypeOK /\ GuardsCount
    BY GuardAssumption DEF RelaysInit, RedisInit, RedisTypeOK, GuardsCount
  <1> QED
    BY <1>f, <1>2, <1>3, <1>4, <1>5, <1>6 DEF RelaysInv, TablesInv

LEMMA RelaysInvNext == RelaysInv /\ [RelaysNext]_relayVars => RelaysInv'
  BY TablesNext, MailNext, ReceiverNext, RedisNext, ReportsNext DEF RelaysInv

LEMMA RelaysInvariant == RelaysSpec => []RelaysInv
  BY RelaysInvInit, RelaysInvNext, PTL DEF RelaysSpec

\* Rows that say delivered were received, and are rows of their table.
LEMMA RowsKnown ==
    ASSUME RelaysInv
    PROVE  /\ DOMAIN outbox \subseteq OutboxIds
           /\ heard \subseteq DOMAIN outbox /\ OutboxRows!Delivered \subseteq heard
           /\ DOMAIN metricsOutbox \subseteq MetricsIds
           /\ Counted \subseteq DOMAIN metricsOutbox /\ MetricsRows!Delivered \subseteq Counted
           /\ DOMAIN systemAlerts \subseteq AlertIds
           /\ paged \subseteq DOMAIN systemAlerts /\ AlertRows!Delivered \subseteq paged
  <1>1. DOMAIN outbox \subseteq OutboxIds /\ heard \subseteq DOMAIN outbox
        /\ OutboxRows!Delivered \subseteq heard
    BY DEF RelaysInv, TablesInv, OutboxRows!TableInv, OutboxRows!TableTypeOK,
       OutboxRows!ReachedFirst
  <1>2. DOMAIN metricsOutbox \subseteq MetricsIds /\ Counted \subseteq DOMAIN metricsOutbox
        /\ MetricsRows!Delivered \subseteq Counted
    BY DEF RelaysInv, TablesInv, MetricsRows!TableInv, MetricsRows!TableTypeOK,
       MetricsRows!ReachedFirst
  <1>3. DOMAIN systemAlerts \subseteq AlertIds /\ paged \subseteq DOMAIN systemAlerts
        /\ AlertRows!Delivered \subseteq paged
    BY DEF RelaysInv, TablesInv, AlertRows!TableInv, AlertRows!TableTypeOK,
       AlertRows!ReachedFirst
  <1> QED
    BY <1>1, <1>2, <1>3

-----------------------------------------------------------------------------
(* Theorems.                                                               *)

\* Every variable of the relays and of the alerting service keeps its type, the
\* alerts that the relays insert about each other's rows included.
THEOREM RelaysTypeCorrect == RelaysSpec => []RelaysTypeOK
  <1>1. RelaysInv => RelaysTypeOK
    <2> SUFFICES ASSUME RelaysInv PROVE RelaysTypeOK
      OBVIOUS
    <2>1. Outbox!TableTypeOK(OutboxIds) /\ Metrics!TableTypeOK(MetricsIds)
          /\ Alerts!TableTypeOK(AlertIds)
      BY OutboxSteps, MetricsSteps, AlertSteps
         DEF RelaysInv, TablesInv, OutboxRows!TableInv, MetricsRows!TableInv, AlertRows!TableInv
    <2> QED
      BY <2>1, RowsKnown DEF RelaysTypeOK, RelaysInv, TablesInv, MailKnown, ReceiverInv
  <1> QED
    BY <1>1, RelaysInvariant, PTL

\* Every POST of an event or an alert and every call of the Redis script is
\* accounted for, whatever fails and whichever replica sent it: the replicas never
\* send one row at a time, and no attempt is lost or counted twice.
THEOREM SendsCountedFor == RelaysSpec => []SendsAreAccounted
  <1>1. RelaysInv => SendsAreAccounted
    <2> SUFFICES ASSUME RelaysInv PROVE SendsAreAccounted
      OBVIOUS
    <2>1. OutboxRows!SendsAccounted
      BY OutboxRows!SendsFollow, RelayAssumption, FailuresAssumption DEF RelaysInv, TablesInv
    <2>2. MetricsRows!SendsAccounted
      BY MetricsRows!SendsFollow, RelayAssumption, FailuresAssumption DEF RelaysInv, TablesInv
    <2>3. AlertRows!SendsAccounted
      BY AlertRows!SendsFollow, RelayAssumption, FailuresAssumption DEF RelaysInv, TablesInv
    <2> QED
      BY <2>1, <2>2, <2>3, OutboxSteps, MetricsSteps, AlertSteps DEF SendsAreAccounted
  <1> QED
    BY <1>1, RelaysInvariant, PTL

\* A business event that counted measurements is, before the outbox calls it delivered,
\* announced itself or suppressed by the key that the announcement of another such
\* event of its batch had left.
THEOREM DeliveredRaised == RelaysSpec => []DeliveredWasRaised
  <1>1. RelaysInv => DeliveredWasRaised
    <2> SUFFICES ASSUME RelaysInv, NEW r \in DOMAIN outbox, outbox[r].delivered,
                        EventOf[r].inserted > 0
                 PROVE  \E line \in logged :
                           /\ line.event = r
                           /\ Announced(logged, line.batch, line.memory)
      BY DEF DeliveredWasRaised, Announced
    <2>1. r \in heard
      BY RowsKnown DEF OutboxRows!Delivered
    <2>2. PICK line \in logged : line.event = r
      BY <2>1 DEF RelaysInv, HeardLogged
    <2> QED
      BY <2>2 DEF RelaysInv, ReceiverInv, KeysWereAnnounced
  <1> QED
    BY <1>1, RelaysInvariant, PTL

\* The system alerts of the relays are those of the failures from the
\* MaxAttempts-th on, one for each, inserted with the attempt they report.
THEOREM ExhaustionReported == RelaysSpec => []ExhaustionIsReported
  <1>1. RelaysInv => ExhaustionIsReported
    BY DEF RelaysInv
  <1> QED
    BY <1>1, RelaysInvariant, PTL

\* A delta is in its counter when its row says delivered, and more than once only
\* where its guard key expired before the row was settled.
THEOREM DeltasAdded == RelaysSpec => []DeltasAddedOnce
  <1>1. RelaysInv => DeltasAddedOnce
    <2> SUFFICES ASSUME RelaysInv, NEW r \in DOMAIN metricsOutbox
                 PROVE  /\ metricsOutbox[r].delivered => added[r] >= 1
                        /\ added[r] <= 1 + lapsed[r]
      BY DEF DeltasAddedOnce
    <2>1. r \in MetricsIds /\ added[r] \in Nat
      BY RowsKnown DEF RelaysInv, RedisTypeOK
    <2>2. metricsOutbox[r].delivered => r \in Counted
      BY RowsKnown DEF MetricsRows!Delivered
    <2> QED
      BY <2>1, <2>2 DEF Counted, RelaysInv, GuardsCount
  <1> QED
    BY <1>1, RelaysInvariant, PTL

\* The receiver announces a batch again only after it forgot the batch, by eviction
\* or by a restart.
THEOREM AlertsRaisedOnce == RelaysSpec => []RaisedOnce
  <1>1. RelaysInv => RaisedOnce
    BY ExactlyIsOnce DEF RelaysInv
  <1> QED
    BY <1>1, RelaysInvariant, PTL

-----------------------------------------------------------------------------
(* The relays implement at-least-once delivery.                            *)

\* A step writes the tables or reaches the other sides, never both.
LEMMA WritesOrReaches ==
    ASSUME [RelaysNext]_relayVars
    PROVE  \/ UNCHANGED <<heard, added, paged>>
           \/ UNCHANGED <<outbox, metricsOutbox, systemAlerts>>
  <1> DEFINE Goal == \/ UNCHANGED <<heard, added, paged>>
                     \/ UNCHANGED <<outbox, metricsOutbox, systemAlerts>>
  <1>1. ASSUME NEW w, OutboxStep(w) \/ OutboxFault(w) PROVE Goal
    BY <1>1 DEF OutboxStep, OutboxFault, OutboxTick, DeliverEvent, DeliverEventFails,
       OutboxRollback, Outbox!Tick, Outbox!Sent, Outbox!Rollback, metricsVars, alertVars
  <1>2. ASSUME NEW w, MetricsStep(w) \/ MetricsFault(w) PROVE Goal
    BY <1>2 DEF MetricsStep, MetricsFault, MetricsTick, ApplyRow, ApplyRowThrows,
       MetricsRollback, Metrics!Tick, Metrics!Sent, Metrics!Rollback, outboxVars, alertVars
  <1>3. ASSUME NEW w, AlertStep(w) \/ AlertFault(w) PROVE Goal
    BY <1>3 DEF AlertStep, AlertFault, AlertTick, DeliverAlert, AlertCommit,
       DeliverAlertFails, AlertRollback, Alerts!Tick, Alerts!Sent, Alerts!Rollback,
       outboxVars, metricsVars, receiverVars, redisVars
  <1>4. ASSUME NEW w, OutboxCommits(w) \/ MetricsCommits(w) PROVE Goal
    BY <1>4 DEF OutboxCommits, OutboxCommit, MetricsCommits, MetricsCommit, redisVars,
       receiverVars
  <1>5. CASE LateMail \/ ReceiverRestarts \/ UNCHANGED relayVars
    BY <1>5 DEF LateMail, MailArrives, PageArrives, ReceiverRestarts, relayVars, outboxVars,
       metricsVars, alertVars
  <1>6. CASE TimePasses
    BY <1>6 DEF TimePasses, GuardsAge, receiverVars
  <1> QED
    BY <1>1, <1>2, <1>3, <1>4, <1>5, <1>6 DEF RelaysNext

LEMMA TablesAdvance ==
    ASSUME RelaysInv, [RelaysNext]_relayVars
    PROVE  /\ DOMAIN outbox \subseteq DOMAIN outbox'
           /\ OutboxRows!Delivered \subseteq OutboxRows!Delivered'
           /\ OutboxRows!Delivered' \subseteq heard
           /\ heard \subseteq heard' /\ heard' \subseteq DOMAIN outbox
           /\ DOMAIN metricsOutbox \subseteq DOMAIN metricsOutbox'
           /\ MetricsRows!Delivered \subseteq MetricsRows!Delivered'
           /\ MetricsRows!Delivered' \subseteq Counted
           /\ Counted \subseteq Counted' /\ Counted' \subseteq DOMAIN metricsOutbox
           /\ DOMAIN systemAlerts \subseteq DOMAIN systemAlerts'
           /\ AlertRows!Delivered \subseteq AlertRows!Delivered'
           /\ AlertRows!Delivered' \subseteq paged
           /\ paged \subseteq paged' /\ paged' \subseteq DOMAIN systemAlerts
  <1>b. Day \in Nat /\ Year \in Nat
    BY RelayAssumption
  <1>1. /\ DOMAIN outbox \subseteq DOMAIN outbox'
        /\ OutboxRows!Delivered \subseteq OutboxRows!Delivered'
        /\ OutboxRows!Delivered' \subseteq heard
    BY <1>b, OutboxAdvances, OutboxRows!RowsAdvance, RelayAssumption, FailuresAssumption
       DEF RelaysInv, TablesInv
  <1>2. /\ DOMAIN metricsOutbox \subseteq DOMAIN metricsOutbox'
        /\ MetricsRows!Delivered \subseteq MetricsRows!Delivered'
        /\ MetricsRows!Delivered' \subseteq Counted
    BY <1>b, MetricsAdvances, MetricsRows!RowsAdvance, RelayAssumption, FailuresAssumption
       DEF RelaysInv, TablesInv
  <1>3. /\ DOMAIN systemAlerts \subseteq DOMAIN systemAlerts'
        /\ AlertRows!Delivered \subseteq AlertRows!Delivered'
        /\ AlertRows!Delivered' \subseteq paged
    BY <1>b, AlertsAdvance, AlertRows!RowsAdvance, RelayAssumption, FailuresAssumption
       DEF RelaysInv, TablesInv
  <1>4. heard \subseteq heard' /\ heard' \subseteq DOMAIN outbox
    BY OutboxAdvances DEF OutboxRows!Progress
  <1>5. Counted \subseteq Counted' /\ Counted' \subseteq DOMAIN metricsOutbox
    BY MetricsAdvances DEF MetricsRows!Progress
  <1>6. paged \subseteq paged' /\ paged' \subseteq DOMAIN systemAlerts
    BY AlertsAdvance DEF AlertRows!Progress
  <1> QED
    BY <1>1, <1>2, <1>3, <1>4, <1>5, <1>6

\* The three tables as one: what is published, received and settled.
SettledRows == Settled("outbox", outbox) \union Settled("metrics", metricsOutbox)
               \union Settled("alert", systemAlerts)

LEMMA RowsTagged ==
    /\ Received = Tagged("outbox", heard) \union Tagged("metrics", Counted)
                  \union Tagged("alert", paged)
    /\ SettledRows = Tagged("outbox", OutboxRows!Delivered)
                     \union Tagged("metrics", MetricsRows!Delivered)
                     \union Tagged("alert", AlertRows!Delivered)
  BY DEF Received, Counted, SettledRows, Settled, OutboxRows!Delivered,
     MetricsRows!Delivered, AlertRows!Delivered

LEMMA TaggedGrows ==
    ASSUME NEW S, NEW T, S \subseteq T, NEW kind
    PROVE  Tagged(kind, S) \subseteq Tagged(kind, T)
  BY DEF Tagged

\* Every step of the relays is, of the three tables taken together, a receipt, a
\* settlement or nothing at all.
LEMMA RelaysStepDelivers ==
    ASSUME RelaysInv, [RelaysNext]_relayVars
    PROVE  AtLeastOnce!Receive \/ AtLeastOnce!Settle
  <1>t. SettledRows' = Tagged("outbox", OutboxRows!Delivered')
                       \union Tagged("metrics", MetricsRows!Delivered')
                       \union Tagged("alert", AlertRows!Delivered')
        /\ Received' = Tagged("outbox", heard') \union Tagged("metrics", Counted')
                       \union Tagged("alert", paged')
    BY DEF Received, Counted, SettledRows, Settled, Tagged, OutboxRows!Delivered,
       MetricsRows!Delivered, AlertRows!Delivered
  <1>p. Published' = Tagged("outbox", DOMAIN outbox') \union Tagged("metrics", DOMAIN metricsOutbox')
                     \union Tagged("alert", DOMAIN systemAlerts')
    BY DEF Published, Tagged
  <1>1. Received \subseteq Received' /\ Received' \subseteq Published
    BY <1>t, TablesAdvance, RowsTagged, TaggedGrows DEF Published
  <1>2. SettledRows \subseteq SettledRows' /\ SettledRows' \subseteq Received
    BY <1>t, TablesAdvance, RowsTagged, TaggedGrows
  <1>3. Published \subseteq Published'
    BY <1>p, TablesAdvance, TaggedGrows DEF Published
  <1>4. CASE UNCHANGED <<heard, added, paged>>
    <2>1. UNCHANGED Received
      BY <1>4 DEF Received, Tagged
    <2> QED
      BY <1>2, <1>3, <2>1 DEF AtLeastOnce!Settle, SettledRows
  <1>5. CASE UNCHANGED <<outbox, metricsOutbox, systemAlerts>>
    <2>1. UNCHANGED <<Published, SettledRows>>
      BY <1>5 DEF Published, SettledRows, Settled, Tagged
    <2> QED
      BY <1>1, <2>1 DEF AtLeastOnce!Receive, SettledRows
  <1> QED
    BY <1>4, <1>5, WritesOrReaches

\* The relays implement at-least-once delivery: a row of any of the three tables is
\* settled only after its content was received, settled rows stay settled, and no
\* transaction both settles rows and reaches the other side.
THEOREM RelaysDeliver == RelaysSpec => AtLeastOnceDelivery
  <1>1. RelaysInit => AtLeastOnce!DeliveryInit
    <2> SUFFICES ASSUME RelaysInit PROVE Received = {} /\ SettledRows = {}
      BY DEF AtLeastOnce!DeliveryInit, SettledRows
    <2>1. heard = {} /\ Counted = {} /\ paged = {}
      BY DEF RelaysInit, RedisInit, ReceiverInit, Counted
    <2>2. /\ OutboxRows!Delivered = {} /\ MetricsRows!Delivered = {}
          /\ AlertRows!Delivered = {}
      BY <2>1, RelaysInvInit, RowsKnown
    <2> QED
      BY <2>1, <2>2, RowsTagged DEF Tagged
  <1>2. RelaysInv /\ [RelaysNext]_relayVars =>
            [AtLeastOnce!Receive \/ AtLeastOnce!Settle]_(AtLeastOnce!deliveryVars)
    BY RelaysStepDelivers
  <1> QED
    BY <1>1, <1>2, RelaysInvariant, PTL
       DEF RelaysSpec, AtLeastOnceDelivery, AtLeastOnce!DeliverySpec

=============================================================================
