---------------------------- MODULE MetricsRelay ----------------------------
(***************************************************************************)
(* apps/metrics-relay: deltas of the table `metrics_outbox` are added to   *)
(* counters in Redis, by a script that is atomic with a guard key; the row *)
(* is marked delivered in Postgres afterwards.  A delta whose attempts are *)
(* used up leaves a row in `system_alerts` and rests for a day.            *)
(***************************************************************************)
EXTENDS RelaySettings

CONSTANTS
    MetricsWorkers, MetricsIds,
    MetricsBatch,
    GuardTtl        \* METRICS_APPLIED_TTL_SECONDS, in RelayTable's units

ASSUME GuardAssumption == GuardTtl \in Nat \ {0}

VARIABLES
    metricsOutbox, metricsWork, metricsSent, metricsUndone,
    guard,          \* per row: what is left of its guard key's life, 0 for no key
    added,          \* per row: times its delta was added to its counter
    lapsed          \* per row: times its guard went before it was settled (history)

metricsVars == <<metricsOutbox, metricsWork, metricsSent, metricsUndone>>
redisVars == <<guard, added, lapsed>>

Metrics == INSTANCE RelayTable WITH
    table <- metricsOutbox, work <- metricsWork,
    sent <- metricsSent, undone <- metricsUndone,
    Workers <- MetricsWorkers, BatchSize <- MetricsBatch, Freeze <- Day

RedisTypeOK ==
    /\ guard \in [MetricsIds -> 0..GuardTtl]
    /\ added \in [MetricsIds -> Nat]
    /\ lapsed \in [MetricsIds -> Nat]

RedisInit ==
    /\ guard = [r \in MetricsIds |-> 0]
    /\ added = [r \in MetricsIds |-> 0]
    /\ lapsed = [r \in MetricsIds |-> 0]

MetricsAlerts(w) ==
    {[from |-> "metrics", row |-> r, attempts |-> metricsOutbox[r].attempts + 1] :
        r \in Metrics!Exhausted(w)}

\* Mutant of ApplyIncrement: the guard is not set with the increment.
ApplyIncrementUnguarded(r) ==
    /\ added' = [added EXCEPT ![r] = @ + 1]
    /\ UNCHANGED <<guard, lapsed>>

\* The script: SETNX, and only where it set the key, EXPIRE and HINCRBYFLOAT.
ApplyIncrement(r) ==
    /\ IF guard[r] = 0
       THEN /\ guard' = [guard EXCEPT ![r] = GuardTtl]
            /\ added' = [added EXCEPT ![r] = @ + 1]
       ELSE UNCHANGED <<guard, added>>
    /\ UNCHANGED lapsed

MetricsTick(w) ==
    /\ Metrics!Tick(w)
    /\ UNCHANGED <<redisVars, faults>>

ApplyRow(w, r) ==
    /\ Metrics!Sent(w, r, "ok")
    /\ ApplyIncrement(r)
    /\ UNCHANGED faults

\* Redis throws, before it ran the script or after.
ApplyRowThrows(w, r) ==
    /\ Fault("redis")
    /\ Metrics!Sent(w, r, "bad")
    /\ ApplyIncrement(r) \/ UNCHANGED redisVars

MetricsCommit(w) ==
    /\ Metrics!Commit(w)
    /\ UNCHANGED <<redisVars, faults>>

\* The script that was under way ran, or did not.  Where it runs later it finds the
\* guard of the replica that took the row over, or is as if it had run here.
MetricsRollback(w) ==
    /\ \E kind \in {"db", "crash"} : Fault(kind)
    /\ \E flying \in Metrics!UnderWay(w) :
          /\ Metrics!Rollback(w, flying)
          /\ UNCHANGED redisVars \/ \E r \in flying : ApplyIncrement(r)

\* Guard keys grow older, and expire.
GuardsAge ==
    /\ guard' = [r \in MetricsIds |-> IF guard[r] > 0 THEN guard[r] - 1 ELSE 0]
    /\ lapsed' = [r \in MetricsIds |->
                     lapsed[r] + IF guard[r] = 1 /\ r \in DOMAIN metricsOutbox
                                    /\ ~ metricsOutbox[r].delivered THEN 1 ELSE 0]
    /\ UNCHANGED added

-----------------------------------------------------------------------------

\* A delta is in its counter at least once when its row says delivered, and more
\* than once only if the guard expired while the row was still pending.
DeltasAddedOnce ==
    \A r \in DOMAIN metricsOutbox :
        /\ metricsOutbox[r].delivered => added[r] >= 1
        /\ added[r] <= 1 + lapsed[r]

=============================================================================
