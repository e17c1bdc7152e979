------------------------------- MODULE Relays -------------------------------
(***************************************************************************)
(* The three relays and the alerting service over one database.  The outbox*)
(* relay and the metrics relay insert into `system_alerts` in the          *)
(* transaction that freezes a row; the system-alerts relay drains it.  A   *)
(* behaviour starts from rows the consumer has committed.                  *)
(***************************************************************************)
EXTENDS OutboxRelay, MetricsRelay, SystemAlertsRelay

CONSTANTS
    ConsumerAlerts, \* system alerts the consumer may have inserted
    MaxBacklog      \* bound: rows pending at the start

\* The consumer's alert types are its own.
ASSUME ConsumerAlertsAssumption == \A a \in ConsumerAlerts : a.from = "consumer"

relayVars == <<outboxVars, metricsVars, alertVars, redisVars, receiverVars,
               mail, heard, pages, faults>>

\* An alert inserted by a relay is identified by its payload.
AlertIds ==
    ConsumerAlerts
    \union [from : {"outbox"}, row : OutboxIds, attempts : 1..MaxFaults]
    \union [from : {"metrics"}, row : MetricsIds, attempts : 1..MaxFaults]

RelaysTypeOK ==
    /\ Outbox!TableTypeOK(OutboxIds)
    /\ Metrics!TableTypeOK(MetricsIds)
    /\ Alerts!TableTypeOK(AlertIds)
    /\ RedisTypeOK
    /\ ReceiverTypeOK
    /\ paged \subseteq AlertIds /\ pages \subseteq AlertIds
    /\ mail \subseteq OutboxIds /\ heard \subseteq OutboxIds
    /\ faults \in 0..MaxFaults

RelaysInit ==
    /\ ReceiverInit
    /\ RedisInit
    /\ \E b \in SUBSET OutboxIds, m \in SUBSET MetricsIds, a \in SUBSET ConsumerAlerts :
          /\ Cardinality(b) + Cardinality(m) + Cardinality(a) \in 1..MaxBacklog
          /\ outbox = [r \in b |-> NewRow]
          /\ metricsOutbox = [r \in m |-> NewRow]
          /\ systemAlerts = [r \in a |-> NewRow]
    /\ outboxWork = [w \in OutboxWorkers |-> Outbox!Idle]
    /\ metricsWork = [w \in MetricsWorkers |-> Metrics!Idle]
    /\ alertWork = [w \in AlertWorkers |-> Alerts!Idle]
    /\ outboxSent = [r \in OutboxIds |-> 0] /\ outboxUndone = outboxSent
    /\ metricsSent = [r \in MetricsIds |-> 0] /\ metricsUndone = metricsSent
    /\ alertSent = [a \in AlertIds |-> 0] /\ alertUndone = alertSent
    /\ mail = {} /\ heard = {} /\ pages = {}
    /\ faults = 0

-----------------------------------------------------------------------------

OutboxStep(w) ==
    /\ \/ OutboxTick(w)
       \/ \E r \in outboxWork[w].todo : DeliverEvent(w, r)
    /\ UNCHANGED <<metricsVars, alertVars, redisVars, pages>>

OutboxFault(w) ==
    /\ \/ \E r \in outboxWork[w].todo : DeliverEventFails(w, r)
       \/ OutboxRollback(w)
    /\ UNCHANGED <<metricsVars, alertVars, redisVars, pages>>

\* Mutant of RecordExhausted: the alert is inserted when a row has been tried
\* once more than it may.
RecordExhaustedLate(alerts) ==
    Alerts!Insert({a \in alerts : a.attempts > MaxAttempts})

\* The INSERT INTO system_alerts of the two relays' handleFailure.
RecordExhausted(alerts) == Alerts!Insert(alerts)

OutboxCommits(w) ==
    /\ OutboxCommit(w)
    /\ RecordExhausted(OutboxAlerts(w))
    /\ UNCHANGED <<metricsVars, redisVars, pages>>

MetricsStep(w) ==
    /\ \/ MetricsTick(w)
       \/ \E r \in metricsWork[w].todo : ApplyRow(w, r)
    /\ UNCHANGED <<outboxVars, alertVars, receiverVars, mail, heard, pages>>

MetricsFault(w) ==
    /\ \/ \E r \in metricsWork[w].todo : ApplyRowThrows(w, r)
       \/ MetricsRollback(w)
    /\ UNCHANGED <<outboxVars, alertVars, receiverVars, mail, heard, pages>>

MetricsCommits(w) ==
    /\ MetricsCommit(w)
    /\ RecordExhausted(MetricsAlerts(w))
    /\ UNCHANGED <<outboxVars, receiverVars, mail, heard, pages>>

AlertStep(w) ==
    /\ \/ AlertTick(w)
       \/ \E a \in alertWork[w].todo : DeliverAlert(w, a)
       \/ AlertCommit(w)
    /\ UNCHANGED <<outboxVars, metricsVars, redisVars, mail, heard>>

AlertFault(w) ==
    /\ \/ \E a \in alertWork[w].todo : DeliverAlertFails(w, a)
       \/ AlertRollback(w)
    /\ UNCHANGED <<outboxVars, metricsVars, redisVars, mail, heard>>

LateMail ==
    /\ \/ \E r \in mail : MailArrives(r) /\ UNCHANGED <<alertVars, pages>>
       \/ \E a \in pages : PageArrives(a) /\ UNCHANGED <<outboxVars, mail, heard>>
    /\ UNCHANGED <<metricsVars, redisVars>>

ReceiverRestarts ==
    /\ RestartReceiver
    /\ UNCHANGED <<outboxVars, metricsVars, alertVars, redisVars, mail, heard, pages>>

\* Time passes for every row and guard key alike.  It stands still once nothing
\* is left that it could change.
TimePasses ==
    /\ \/ Outbox!Resting # {} \/ Metrics!Resting # {} \/ Alerts!Resting # {}
       \/ \E r \in MetricsIds : guard[r] > 0
    /\ Outbox!Elapse /\ Metrics!Elapse /\ Alerts!Elapse
    /\ GuardsAge
    /\ UNCHANGED <<receiverVars, mail, heard, pages, faults>>

RelaysNext ==
    \/ \E w \in OutboxWorkers : OutboxStep(w) \/ OutboxCommits(w) \/ OutboxFault(w)
    \/ \E w \in MetricsWorkers : MetricsStep(w) \/ MetricsCommits(w) \/ MetricsFault(w)
    \/ \E w \in AlertWorkers : AlertStep(w) \/ AlertFault(w)
    \/ LateMail
    \/ ReceiverRestarts
    \/ TimePasses

RelaysSpec == RelaysInit /\ [][RelaysNext]_relayVars

\* setInterval ticks for as long as a process runs, and a process that dies is
\* started again (docker-compose.yml, restart: unless-stopped); failures are
\* finitely many.  A lost answer's POST need never arrive.
RelaysFairSpec ==
    /\ RelaysSpec
    /\ \A w \in OutboxWorkers : WF_relayVars(OutboxStep(w) \/ OutboxCommits(w))
    /\ \A w \in MetricsWorkers : WF_relayVars(MetricsStep(w) \/ MetricsCommits(w))
    /\ \A w \in AlertWorkers : WF_relayVars(AlertStep(w))
    /\ WF_relayVars(TimePasses)

-----------------------------------------------------------------------------
(* Properties.                                                             *)

\* Every POST and every call of the script is an attempt that its row counts, the
\* delivery that its row records, or one undone with its tick: FOR UPDATE SKIP LOCKED
\* and the one transaction per tick let no two replicas work on one row, but for a
\* request in flight whose session was lost.
SendsAreAccounted ==
    Outbox!SendsAccounted /\ Metrics!SendsAccounted /\ Alerts!SendsAccounted

\* A business event that counted measurements and that the outbox calls delivered was
\* announced itself; or it was suppressed as a duplicate by a key that another event of
\* its batch had left, one that counted too and was announced, in the same memory of
\* the receiver.  An event that counted nothing leaves no key, a key that was forgotten
\* suppresses nothing.
DeliveredWasRaised ==
    \A r \in DOMAIN outbox :
        outbox[r].delivered /\ EventOf[r].inserted > 0 =>
            \E line \in logged :
                /\ line.event = r
                /\ line.says = "duplicate" =>
                       \E key \in logged : /\ key.says = "delivered"
                                            /\ key.batch = line.batch
                                            /\ key.memory = line.memory

\* The alerts about a row are those of its failures from the MaxAttempts-th on:
\* an exhausted row never goes without one, a rolled-back tick leaves none, and
\* a row that rested for its day raises one more with each further failure.
AlertsOf(from, row) == {a \in DOMAIN systemAlerts \ ConsumerAlerts : a.from = from /\ a.row = row}
ExhaustionIsReported ==
    /\ \A r \in DOMAIN outbox :
          {a.attempts : a \in AlertsOf("outbox", r)} = MaxAttempts..outbox[r].attempts
    /\ \A r \in DOMAIN metricsOutbox :
          {a.attempts : a \in AlertsOf("metrics", r)} = MaxAttempts..metricsOutbox[r].attempts

Tagged(kind, S) == {kind} \X S
Published == Tagged("outbox", DOMAIN outbox) \union Tagged("metrics", DOMAIN metricsOutbox)
             \union Tagged("alert", DOMAIN systemAlerts)
Received == Tagged("outbox", heard) \union Tagged("metrics", {r \in MetricsIds : added[r] > 0})
            \union Tagged("alert", paged)
Settled(kind, table) == Tagged(kind, {r \in DOMAIN table : table[r].delivered})

\* The relays implement at-least-once delivery: no row is called delivered, in
\* any of the three tables, unless its content had reached the other side.
AtLeastOnce == INSTANCE Delivery WITH
    published <- Published,
    received <- Received,
    settled <- Settled("outbox", outbox) \union Settled("metrics", metricsOutbox)
               \union Settled("alert", systemAlerts)
AtLeastOnceDelivery == AtLeastOnce!DeliverySpec

\* Whatever fails, however often a row is frozen and whichever replica holds it,
\* every row of the three tables is delivered in the end, the alerts about
\* exhausted rows included.
AllDelivered ==
    /\ \A r \in DOMAIN outbox : outbox[r].delivered
    /\ \A r \in DOMAIN metricsOutbox : metricsOutbox[r].delivered
    /\ \A a \in DOMAIN systemAlerts : systemAlerts[a].delivered
EveryRowIsDelivered == <>[]AllDelivered

=============================================================================
