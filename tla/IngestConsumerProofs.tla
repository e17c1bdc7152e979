------------------------ MODULE IngestConsumerProofs ------------------------
(***************************************************************************)
(* Theorems about IngestConsumer, for every value of its constants.        *)
(***************************************************************************)
EXTENDS IngestConsumer, TLAPS

-----------------------------------------------------------------------------
(* Lemmas about the vocabulary.                                            *)

LEMMA ItemsTyped ==
    ASSUME NEW m \in Message
    PROVE  Items(m) \subseteq Measurement
  <1>1. m.load \in Seq(Measurement)
    BY ConsumerAssumption DEF Message
  <1> QED
    BY <1>1 DEF Items

LEMMA KeysTyped ==
    ASSUME NEW m \in Message
    PROVE  KeysOf(m) \subseteq Key
  <1>1. ASSUME NEW x \in Items(m)
        PROVE  KeyOf(m, x) \in Key
    <2>1. x \in Measurement
      BY ItemsTyped
    <2>2. m.batch \in Batches /\ m.site \in Sites /\ x.code \in Codes /\ x.at \in Instants
      BY <2>1 DEF Message, Measurement
    <2> QED
      BY <2>2 DEF KeyOf, Key
  <1> QED
    BY <1>1 DEF KeysOf

LEMMA KeyMonthTyped ==
    ASSUME NEW k \in Key
    PROVE  k.site \in Sites /\ KeyMonth(k) \in Nat
  <1>1. k.site \in Sites /\ k.at \in Instants
    BY DEF Key
  <1>2. <<k.site, k.at>> \in Sites \X Instants
    BY <1>1
  <1> QED
    BY <1>1, <1>2, ConsumerAssumption DEF KeyMonth

-----------------------------------------------------------------------------
(* Type correctness.  A handler past the site lookup works on a batch that *)
(* the log holds: that is what types the rows it writes.                   *)

InFlight ==
    \A c \in Consumers :
        /\ work[c].pc # "idle" =>
              work[c].offset \in DOMAIN log /\ work[c].last \in DOMAIN log
        /\ work[c].pc \in {"select", "insert", "persist"} => Current(c) \in Message

TypeInv == ConsumerTypeOK /\ InFlight

LEMMA WantedTyped ==
    ASSUME NEW c \in Consumers, Current(c) \in Message
    PROVE  Wanted(c) \subseteq Point
  <1>1. Items(Current(c)) \subseteq Measurement
    BY ItemsTyped
  <1>2. Current(c).site \in Sites
    BY DEF Message
  <1> QED
    BY <1>1, <1>2 DEF Wanted, Point, Measurement

LEMMA CommitTyped ==
    ASSUME TypeInv, NEW c \in Consumers, At(c, "persist"), Commit(c)
    PROVE  /\ points' \subseteq Point
           /\ measurements' \subseteq Key
           /\ staleMonths' \subseteq Sites \X Nat
           /\ metricsOutbox' \subseteq MetricsRow
           /\ outbox' \in Seq(OutboxRow)
           /\ late' \subseteq Key
  <1>1. Current(c) \in Message
    BY DEF TypeInv, InFlight, At
  <1>2. Current(c).site \in Sites /\ Current(c).batch \in Batches
        /\ Current(c).load \in Seq(Measurement)
    BY <1>1, ConsumerAssumption DEF Message
  <1>3. Fresh(c) \subseteq Key
    BY <1>1, KeysTyped DEF Fresh
  <1>4. \A k \in Fresh(c) : k.site \in Sites /\ KeyMonth(k) \in Nat
    BY <1>3, KeyMonthTyped
  <1>5. outbox \in Seq(OutboxRow) /\ Len(outbox) \in Nat
    BY DEF TypeInv, ConsumerTypeOK
  <1>6. points' \subseteq Point /\ measurements' \subseteq Key /\ late' \subseteq Key
    BY <1>3 DEF Commit, TypeInv, ConsumerTypeOK
  <1>7. staleMonths' \subseteq Sites \X Nat
    BY <1>4 DEF Commit, MarkMonthsStale, LateKeys, TypeInv, ConsumerTypeOK
  <1>8. metricsOutbox' \subseteq MetricsRow
    <2>1. ASSUME NEW k \in Fresh(c)
          PROVE  DeltaRow(c, KeyMonth(k)) \in MetricsRow
      BY <1>2, <1>3, <1>4, <1>5 DEF DeltaRow, MetricsRow
    <2> QED
      BY <2>1 DEF Commit, WriteMetricsOutbox, TypeInv, ConsumerTypeOK
  <1>9. outbox' \in Seq(OutboxRow)
    BY <1>2, <1>3, <1>5 DEF Commit, WriteOutbox, OutboxRow
  <1> QED
    BY <1>6, <1>7, <1>8, <1>9


LEMMA TypeInvInit == Init => TypeInv
  <1> SUFFICES ASSUME Init PROVE TypeInv
    OBVIOUS
  <1>1. Idle \in Work /\ Idle.pc = "idle"
    BY DEF Idle, Work, HandlerPC
  <1>2. 1 \in Month
    BY ConsumerAssumption DEF Month
  <1>3. ConsumerTypeOK
    BY <1>1, <1>2 DEF Init, ConsumerInit, ConsumerTypeOK, NoOffset
  <1>4. InFlight
    BY <1>1 DEF Init, ConsumerInit, InFlight
  <1> QED
    BY <1>3, <1>4 DEF TypeInv

LEMMA TypeInvNext == TypeInv /\ [Next]_consumerVars => TypeInv'
  <1> SUFFICES ASSUME TypeInv, [Next]_consumerVars PROVE TypeInv'
    OBVIOUS
  <1> USE DEF TypeInv
  <1>i. Idle \in Work /\ Idle.pc = "idle"
    BY DEF Idle, Work, HandlerPC
  <1>f. ASSUME NEW kind, Fault(kind) PROVE faults' \in Nat
    BY <1>f DEF Fault, ConsumerTypeOK
  <1>h. ASSUME NEW c \in Consumers, UNCHANGED log,
               NEW offset \in DOMAIN log, NEW last \in DOMAIN log,
               work' = [work EXCEPT ![c] = Handling(offset, last)]
        PROVE  work' \in [Consumers -> Work] /\ InFlight'
    <2>1. Handling(offset, last) \in Work
      BY ConsumerAssumption DEF Handling, ConsumerTypeOK, Work, HandlerPC, Month
    <2>2. work' \in [Consumers -> Work]
      BY <1>h, <2>1 DEF ConsumerTypeOK
    <2>3. ASSUME NEW d \in Consumers
          PROVE  /\ work'[d].pc # "idle" =>
                       work'[d].offset \in DOMAIN log /\ work'[d].last \in DOMAIN log
                 /\ work'[d].pc \in {"select", "insert", "persist"} =>
                        work'[d] = work[d]
      BY <1>h DEF Handling, InFlight, ConsumerTypeOK
    <2> QED
      BY <1>h, <2>2, <2>3 DEF InFlight, Current
  <1>1. ASSUME NEW c \in Consumers, Fetch(c) PROVE TypeInv'
    <2>1. /\ work' = [work EXCEPT ![c] = Handling(position, Len(log))]
          /\ position \in DOMAIN log /\ Len(log) \in DOMAIN log
      BY <1>1 DEF Fetch, ConsumerTypeOK
    <2> QED
      BY <1>1, <1>h, <2>1 DEF Fetch, ConsumerTypeOK, environment, tables, group, caches, outcomes
  <1>2. ASSUME NEW c \in Consumers, Reject(c) PROVE TypeInv'
    <2>1. work' \in [Consumers -> Work] /\ work[c].offset \in Nat
      BY ZenonT(40), <1>2 DEF Reject, Goto, ConsumerTypeOK, Work, HandlerPC
    <2>2. alerts' \subseteq AlertRow /\ faults' \in Nat
      BY <1>2, <1>f, <2>1 DEF Reject, InsertAlert, ConsumerTypeOK, AlertRow
    <2>3. ConsumerTypeOK'
      BY <1>2, <2>1, <2>2 DEF Reject, ConsumerTypeOK, environment, tables, group, caches
    <2>4. InFlight'
      BY <1>2 DEF Reject, At, Goto, InFlight, Current, ConsumerTypeOK, environment
    <2> QED
      BY <2>3, <2>4
  <1>3. ASSUME NEW c \in Consumers, UnknownSite(c) PROVE TypeInv'
    <2>1. work' \in [Consumers -> Work] /\ work[c].offset \in Nat
      BY ZenonT(40), <1>3 DEF UnknownSite, Goto, ConsumerTypeOK, Work, HandlerPC
    <2>2. alerts' \subseteq AlertRow /\ faults' \in Nat
      BY <1>3, <1>f, <2>1 DEF UnknownSite, InsertAlert, ConsumerTypeOK, AlertRow
    <2>3. ConsumerTypeOK'
      BY <1>3, <2>1, <2>2 DEF UnknownSite, ConsumerTypeOK, environment, tables, group, caches
    <2>4. InFlight'
      BY <1>3 DEF UnknownSite, At, Goto, InFlight, Current, ConsumerTypeOK, environment
    <2> QED
      BY <2>3, <2>4
  <1>4. ASSUME NEW c \in Consumers, FindSite(c) PROVE TypeInv'
    <2>1. Current(c) \in Message
      BY <1>4 DEF FindSite, At, InFlight, Current, ConsumerTypeOK
    <2>2. Current(c).site \in Sites
      BY <2>1 DEF Message
    <2>3. siteCache' \in [Consumers -> SUBSET Sites]
      BY <1>4, <2>2 DEF FindSite, ConsumerTypeOK
    <2>4. work' \in [Consumers -> Work]
      <3>1. clock \in Nat /\ work[c] \in Work
        BY ConsumerAssumption DEF ConsumerTypeOK, Month
      <3>2. [work[c] EXCEPT !.pc = "select", !.month = clock] \in Work
        BY <3>1 DEF Work, HandlerPC
      <3>3. work' = [work EXCEPT ![c] = [work[c] EXCEPT !.pc = "select", !.month = clock]]
        BY <1>4 DEF FindSite, ConsumerTypeOK
      <3> QED
        BY <3>2, <3>3 DEF ConsumerTypeOK
    <2>5. ConsumerTypeOK'
      BY <1>4, <2>3, <2>4 DEF FindSite, ConsumerTypeOK, environment, tables, group, outcomes
    <2>6. InFlight'
      BY <1>4, <2>1 DEF FindSite, At, InFlight, Current, ConsumerTypeOK, environment
    <2> QED
      BY <2>5, <2>6
  <1>t. ASSUME NEW c \in Consumers, Throws(c), UNCHANGED log
        PROVE  /\ work' \in [Consumers -> Work] /\ failed' \subseteq Nat
               /\ persisted' \subseteq Nat /\ dropped' \subseteq Nat
               /\ InFlight'
    <2>1. work' = [work EXCEPT ![c] = Idle] /\ work[c].offset \in Nat
      BY <1>t DEF Throws, ConsumerTypeOK, Work
    <2>2. InFlight'
      BY <1>t, <1>i, <2>1 DEF InFlight, Current, ConsumerTypeOK
    <2> QED
      BY <1>t, <1>i, <2>1, <2>2 DEF Throws, ConsumerTypeOK
  <1>5. ASSUME NEW c \in Consumers, FindSiteThrows(c) PROVE TypeInv'
    BY <1>5, <1>f, <1>t DEF FindSiteThrows, StatementThrows, ConsumerTypeOK,
       environment, tables, group, caches
  <1>6. ASSUME NEW c \in Consumers, SelectPoints(c) PROVE TypeInv'
    <2> DEFINE found == Wanted(c) \intersect (pointCache[c] \union points)
    <2>1. Current(c) \in Message /\ found \subseteq Point
      BY <1>6, WantedTyped DEF SelectPoints, At, InFlight
    <2>2. work' \in [Consumers -> Work] /\ pointCache' \in [Consumers -> SUBSET Point]
      BY ZenonT(40), <1>6, <2>1 DEF SelectPoints, ConsumerTypeOK, Work, HandlerPC
    <2>3. ConsumerTypeOK'
      BY <1>6, <2>2 DEF SelectPoints, ConsumerTypeOK, environment, tables, group, outcomes
    <2>4. InFlight'
      BY <1>6, <2>1 DEF SelectPoints, At, InFlight, Current, ConsumerTypeOK, environment
    <2> QED
      BY <2>3, <2>4
  <1>7. ASSUME NEW c \in Consumers, SelectPointsThrows(c) PROVE TypeInv'
    BY <1>7, <1>f, <1>t DEF SelectPointsThrows, StatementThrows, ConsumerTypeOK,
       environment, tables, group, caches
  <1>8. ASSUME NEW c \in Consumers, InsertPoints(c) PROVE TypeInv'
    <2> DEFINE returned == Unresolved(c) \ points
    <2>1. Current(c) \in Message /\ returned \subseteq Point
      BY <1>8, WantedTyped DEF InsertPoints, At, InFlight, Unresolved
    <2>2. work' \in [Consumers -> Work] /\ pointCache' \in [Consumers -> SUBSET Point]
      BY ZenonT(40), <1>8, <2>1 DEF InsertPoints, ConsumerTypeOK, Work, HandlerPC
    <2>3. ConsumerTypeOK'
      BY <1>8, <2>1, <2>2 DEF InsertPoints, ConsumerTypeOK, environment, group, outcomes
    <2>4. InFlight'
      BY <1>8, <2>1 DEF InsertPoints, At, InFlight, Current, ConsumerTypeOK, environment
    <2> QED
      BY <2>3, <2>4
  <1>9. ASSUME NEW c \in Consumers, InsertPointsThrows(c) PROVE TypeInv'
    <2>1. points' \subseteq Point
      BY <1>9, WantedTyped DEF InsertPointsThrows, At, InFlight, Unresolved, ConsumerTypeOK
    <2> QED
      BY <1>9, <1>f, <1>t, <2>1 DEF InsertPointsThrows, StatementThrows, ConsumerTypeOK,
         environment, group, caches
  <1>10. ASSUME NEW c \in Consumers, Persist(c) PROVE TypeInv'
    <2>1. work' \in [Consumers -> Work] /\ persisted' \subseteq Nat
      BY ZenonT(40), <1>10 DEF Persist, Goto, ConsumerTypeOK, Work, HandlerPC
    <2>2. ConsumerTypeOK'
      BY <1>10, <2>1, CommitTyped DEF Persist, ConsumerTypeOK, environment, group, caches
    <2>3. InFlight'
      BY <1>10 DEF Persist, At, Goto, InFlight, Current, ConsumerTypeOK, environment
    <2> QED
      BY <2>2, <2>3
  <1>11. ASSUME NEW c \in Consumers, PersistUnresolved(c) \/ PersistOverflows(c) PROVE TypeInv'
    BY <1>11, <1>t DEF PersistUnresolved, PersistOverflows, ConsumerTypeOK,
       environment, tables, group, caches
  <1>12. ASSUME NEW c \in Consumers, PersistThrows(c) PROVE TypeInv'
    <2>1. \/ UNCHANGED tables
          \/ /\ points' \subseteq Point
             /\ measurements' \subseteq Key
             /\ staleMonths' \subseteq Sites \X Nat
             /\ metricsOutbox' \subseteq MetricsRow
             /\ outbox' \in Seq(OutboxRow)
             /\ late' \subseteq Key
      BY <1>12, CommitTyped DEF PersistThrows
    <2> QED
      BY <1>12, <1>f, <1>t, <2>1 DEF PersistThrows, ConsumerTypeOK,
         environment, tables, group, caches
  <1>w. ASSUME NEW c \in Consumers, work' = [work EXCEPT ![c] = Idle], UNCHANGED log
        PROVE  work' \in [Consumers -> Work] /\ InFlight'
    BY <1>w, <1>i DEF InFlight, Current, ConsumerTypeOK
  <1>13. ASSUME NEW c \in Consumers, ResolveOffset(c) PROVE TypeInv'
    <2>1. position' \in Nat \ {0} /\ committed' \in Nat
      BY <1>13 DEF ResolveOffset, ConsumerTypeOK, Work
    <2> QED
      BY <1>13, <1>w, <2>1 DEF ResolveOffset, ConsumerTypeOK,
         environment, tables, caches, outcomes
  <1>14. ASSUME NEW c \in Consumers, HeartbeatThrows(c) PROVE TypeInv'
    BY <1>14, <1>w DEF HeartbeatThrows, ConsumerTypeOK,
       environment, tables, group, caches, outcomes
  <1>g. ASSUME NEW c \in Consumers, GoesOn(c) PROVE TypeInv'
    <2>1. /\ work' = [work EXCEPT ![c] = Handling(work[c].offset + 1, work[c].last)]
          /\ work[c].offset + 1 \in DOMAIN log /\ work[c].last \in DOMAIN log
      <3>1. /\ work[c].offset \in DOMAIN log /\ work[c].last \in DOMAIN log
            /\ work[c].offset < work[c].last
        BY <1>g DEF GoesOn, At, InFlight
      <3> QED
        BY <1>g, <3>1 DEF GoesOn, ConsumerTypeOK
    <2> QED
      BY <1>g, <1>h, <2>1 DEF GoesOn, ConsumerTypeOK, environment, tables, group, caches, outcomes
  <1>15. ASSUME NEW c \in Consumers, Join(c) \/ Rebalance(c) PROVE TypeInv'
    <2>1. Assign(c) /\ faults' \in Nat
      BY <1>15, <1>f DEF Join, Rebalance, ConsumerTypeOK
    <2>2. position' \in Nat \ {0} /\ start' \in Nat \ {0}
      BY <2>1 DEF Assign, ConsumerTypeOK, NoOffset
    <2> QED
      BY <2>1, <2>2 DEF Assign, ConsumerTypeOK, InFlight, Current,
         environment, tables, caches, outcomes
  <1>16. ASSUME NEW c \in Consumers, Crash(c) PROVE TypeInv'
    <2>1. /\ siteCache' \in [Consumers -> SUBSET Sites]
          /\ pointCache' \in [Consumers -> SUBSET Point]
      BY <1>16 DEF Crash, ConsumerTypeOK
    <2> QED
      BY <1>16, <1>f, <1>w, <2>1 DEF Crash, ConsumerTypeOK, environment, tables, outcomes
  <1>17. CASE EnvironmentNext
    <2>1. ConsumerTypeOK' /\ \A i \in DOMAIN log : i \in DOMAIN log' /\ log'[i] = log[i]
      <3>1. CASE AppendMessage
        BY <1>17, <3>1 DEF EnvironmentNext, AppendMessage, ConsumerTypeOK,
           tables, group, caches, outcomes
      <3>2. CASE CreateSite
        BY <1>17, <3>2 DEF EnvironmentNext, CreateSite, ConsumerTypeOK,
           tables, group, caches, outcomes
      <3>3. CASE MonthPasses
        BY <1>17, <3>3, ConsumerAssumption DEF EnvironmentNext, MonthPasses, ConsumerTypeOK,
           Month, tables, group, caches, outcomes
      <3> QED
        BY <1>17, <3>1, <3>2, <3>3 DEF EnvironmentNext
    <2> QED
      BY <1>17, <2>1 DEF EnvironmentNext, InFlight, Current
  <1>18. CASE UNCHANGED consumerVars
    BY <1>18 DEF consumerVars, environment, tables, group, caches, outcomes,
       ConsumerTypeOK, InFlight, Current
  <1> QED
    BY <1>1, <1>2, <1>3, <1>4, <1>5, <1>6, <1>7, <1>8, <1>9, <1>10, <1>11, <1>12,
       <1>13, <1>14, <1>g, <1>15, <1>16, <1>17, <1>18
       DEF Next, ConsumerNext, ConsumerStep, ConsumerFault

\* Type correctness: no handler, in any interleaving of processes, failures and
\* handovers, leaves a table, a cache or an offset outside its type.
THEOREM TypeCorrect == Spec => []ConsumerTypeOK
  <1>1. Spec => []TypeInv
    BY TypeInvInit, TypeInvNext, PTL DEF Spec
  <1>2. TypeInv => ConsumerTypeOK
    BY DEF TypeInv
  <1> QED
    BY <1>1, <1>2, PTL

-----------------------------------------------------------------------------
(* The tables change in a commit and nowhere else.                         *)

counts == <<measurements, metricsOutbox, outbox>>

LEMMA TablesChangeInCommits ==
    ASSUME TypeInv, [Next]_consumerVars
    PROVE  \/ UNCHANGED <<counts, staleMonths, late>>
           \/ \E c \in Consumers :
                 At(c, "persist") /\ Unresolved(c) = {} /\ Commit(c) /\ UNCHANGED log
  <1> USE DEF counts, tables, environment
  <1>1. ASSUME NEW c \in Consumers, ConsumerStep(c)
        PROVE  \/ UNCHANGED <<counts, staleMonths, late>>
               \/ At(c, "persist") /\ Unresolved(c) = {} /\ Commit(c) /\ UNCHANGED log
    BY <1>1 DEF ConsumerStep, Fetch, Reject, UnknownSite, FindSite, SelectPoints,
       InsertPoints, Persist, PersistUnresolved, PersistOverflows, ResolveOffset,
       HeartbeatThrows, GoesOn, Join, Assign
  <1>2. ASSUME NEW c \in Consumers, ConsumerFault(c)
        PROVE  \/ UNCHANGED <<counts, staleMonths, late>>
               \/ At(c, "persist") /\ Unresolved(c) = {} /\ Commit(c) /\ UNCHANGED log
    BY <1>2 DEF ConsumerFault, FindSiteThrows, SelectPointsThrows, InsertPointsThrows,
       PersistThrows, Rebalance, Assign, Crash
  <1>3. CASE EnvironmentNext
    BY <1>3 DEF EnvironmentNext
  <1>4. CASE UNCHANGED consumerVars
    BY <1>4 DEF consumerVars
  <1> QED
    BY <1>1, <1>2, <1>3, <1>4 DEF Next, ConsumerNext

LEMMA CommitInserts ==
    ASSUME TypeInv, NEW c \in Consumers, At(c, "persist"), Commit(c)
    PROVE  /\ Current(c) \in Message
           /\ Fresh(c) \subseteq Key
           /\ Fresh(c) \intersect measurements = {}
           /\ measurements' = measurements \union Fresh(c)
           /\ Len(outbox') = Len(outbox) + 1
           /\ DOMAIN outbox' = 1..Len(outbox') /\ DOMAIN outbox = 1..Len(outbox)
           /\ \A i \in DOMAIN outbox : outbox'[i] = outbox[i]
           /\ outbox'[Len(outbox) + 1].inserted = Fresh(c)
  <1>1. Current(c) \in Message
    BY DEF TypeInv, InFlight, At
  <1>2. Fresh(c) \subseteq Key
    BY <1>1, KeysTyped DEF Fresh
  <1>3. outbox \in Seq(OutboxRow) /\ outbox' \in Seq(OutboxRow)
    BY CommitTyped DEF TypeInv, ConsumerTypeOK
  <1> DEFINE row == [site |-> Current(c).site, batch |-> Current(c).batch,
                     inserted |-> Fresh(c), submitted |-> Len(Current(c).load)]
  <1>4. outbox' = Append(outbox, row) /\ row.inserted = Fresh(c)
    BY DEF Commit, WriteOutbox
  <1> HIDE DEF row
  <1>5. /\ Len(outbox') = Len(outbox) + 1
        /\ DOMAIN outbox' = 1..Len(outbox') /\ DOMAIN outbox = 1..Len(outbox)
        /\ \A i \in DOMAIN outbox : outbox'[i] = outbox[i]
        /\ outbox'[Len(outbox) + 1] = row
    BY <1>3, <1>4
  <1> QED
    BY <1>1, <1>2, <1>4, <1>5 DEF Commit, Fresh

-----------------------------------------------------------------------------
(* Every stored measurement is counted once.                               *)

LEMMA OutboxCountsOnceNext ==
    ASSUME TypeInv, [Next]_consumerVars, OutboxCountsOnce
    PROVE  OutboxCountsOnce'
  <1>1. CASE UNCHANGED <<counts, staleMonths, late>>
    BY <1>1 DEF counts, OutboxCountsOnce, InsertedBy
  <1>2. ASSUME NEW c \in Consumers, At(c, "persist"), Commit(c)
        PROVE  OutboxCountsOnce'
    <2> DEFINE n == Len(outbox)
    <2>1. n \in Nat
      BY DEF TypeInv, ConsumerTypeOK
    <2>2. DOMAIN outbox = 1..n /\ DOMAIN outbox' = 1..(n + 1)
      BY <1>2, CommitInserts
    <2>3. /\ Fresh(c) \intersect measurements = {}
          /\ measurements' = measurements \union Fresh(c)
          /\ outbox'[n + 1].inserted = Fresh(c)
          /\ \A i \in 1..n : outbox'[i].inserted = outbox[i].inserted
      BY <1>2, <2>2, CommitInserts
    <2>4. /\ measurements = UNION {outbox[i].inserted : i \in 1..n}
          /\ \A i, j \in 1..n : i # j => outbox[i].inserted \intersect outbox[j].inserted = {}
      BY <2>2 DEF OutboxCountsOnce, InsertedBy
    <2> HIDE DEF n
    <2>5. \A i \in 1..(n + 1) : i \in 1..n \/ i = n + 1
      BY <2>1
    <2>6. 1..n \subseteq 1..(n + 1) /\ n + 1 \in 1..(n + 1)
      BY <2>1
    <2>7. measurements' = UNION {outbox'[i].inserted : i \in 1..(n + 1)}
      BY <2>3, <2>4, <2>5, <2>6
    <2>8. \A i \in 1..n : outbox'[i].inserted \subseteq measurements
      BY <2>3, <2>4
    <2>9. \A i, j \in 1..(n + 1) :
             i # j => outbox'[i].inserted \intersect outbox'[j].inserted = {}
      BY <2>3, <2>4, <2>5, <2>8
    <2> QED
      BY <2>2, <2>7, <2>9 DEF OutboxCountsOnce, InsertedBy
  <1> QED
    BY <1>1, <1>2, TablesChangeInCommits

LEMMA DeltasCountOnceNext ==
    ASSUME TypeInv, [Next]_consumerVars, DeltasCountOnce
    PROVE  DeltasCountOnce'
  <1>1. CASE UNCHANGED <<counts, staleMonths, late>>
    BY <1>1 DEF counts, DeltasCountOnce
  <1>2. ASSUME NEW c \in Consumers, At(c, "persist"), Commit(c)
        PROVE  DeltasCountOnce'
    <2> DEFINE new == {DeltaRow(c, KeyMonth(k)) : k \in Fresh(c)}
    <2>1. /\ Fresh(c) \intersect measurements = {}
          /\ measurements' = measurements \union Fresh(c)
          /\ metricsOutbox' = metricsOutbox \union new
      BY <1>2, CommitInserts DEF Commit, WriteMetricsOutbox
    <2>2. \A k \in Fresh(c) : k.site = Current(c).site
      BY DEF Fresh, KeysOf, KeyOf
    <2>3. \A r \in new : /\ r.rows = {k \in Fresh(c) : KeyMonth(k) = r.month}
                         /\ r.site = Current(c).site /\ r.tx = Len(outbox) + 1
      BY DEF DeltaRow
    <2>4. ASSUME NEW k \in Fresh(c) PROVE \E r \in new : k \in r.rows
      <3>1. DeltaRow(c, KeyMonth(k)) \in new
        OBVIOUS
      <3>2. k \in DeltaRow(c, KeyMonth(k)).rows
        BY DEF DeltaRow
      <3> QED
        BY <3>1, <3>2
    <2>5. ASSUME NEW r \in new, NEW q \in new, r.month = q.month PROVE r = q
      <3>1. \A month : DeltaRow(c, month).month = month
        BY DEF DeltaRow
      <3>2. r = DeltaRow(c, r.month) /\ q = DeltaRow(c, q.month)
        BY <3>1
      <3> QED
        BY <2>5, <3>2
    <2> HIDE DEF new
    <2>6. measurements' = UNION {r.rows : r \in metricsOutbox'}
      BY <2>1, <2>3, <2>4 DEF DeltasCountOnce
    <2>7. \A r \in metricsOutbox : r.rows \subseteq measurements
      BY DEF DeltasCountOnce
    <2>8. \A r, q \in metricsOutbox' : r # q => r.rows \intersect q.rows = {}
      BY <2>1, <2>3, <2>5, <2>7 DEF DeltasCountOnce
    <2>9. \A r \in metricsOutbox' : \A k \in r.rows : k.site = r.site /\ KeyMonth(k) = r.month
      BY <2>1, <2>2, <2>3 DEF DeltasCountOnce
    <2>10. \A k : KeyMonth(k)' = KeyMonth(k)
      BY DEF KeyMonth
    <2> QED
      BY <2>6, <2>8, <2>9, <2>10 DEF DeltasCountOnce
  <1> QED
    BY <1>1, <1>2, TablesChangeInCommits

\* Whatever is copied, replayed or handled by two processes at once, every
\* stored measurement is in exactly one business event.
THEOREM CountedOnce == Spec => []OutboxCountsOnce
  <1>1. Init => OutboxCountsOnce
    BY DEF Init, ConsumerInit, OutboxCountsOnce, InsertedBy
  <1> QED
    BY <1>1, TypeInvInit, TypeInvNext, OutboxCountsOnceNext, PTL DEF Spec

\* It is also in exactly one delta, the one of its own site and month.
THEOREM DeltasCountedOnce == Spec => []DeltasCountOnce
  <1>1. Init => DeltasCountOnce
    BY DEF Init, ConsumerInit, DeltasCountOnce
  <1> QED
    BY <1>1, TypeInvInit, TypeInvNext, DeltasCountOnceNext, PTL DEF Spec

-----------------------------------------------------------------------------
(* What the three steps between the fetch and the transaction do to a       *)
(* handler's own state, field by field.                                    *)

LEMMA DoneMoves ==
    ASSUME TypeInv, NEW c \in Consumers, Reject(c) \/ UnknownSite(c) \/ Persist(c)
    PROVE  /\ \A d \in Consumers \ {c} : work'[d] = work[d]
           /\ work[c].pc \in {"lookup", "persist"} /\ work'[c].pc = "resolve"
           /\ work'[c].offset = work[c].offset
  <1>1. work \in [Consumers -> Work] /\ work[c] \in Work
    BY DEF TypeInv, ConsumerTypeOK
  <1>2. work' = [work EXCEPT ![c].pc = "resolve"] /\ work[c].pc \in {"lookup", "persist"}
    BY DEF Reject, UnknownSite, Persist, Goto, At
  <1> QED
    BY <1>1, <1>2 DEF Work

LEMMA FindSiteMoves ==
    ASSUME TypeInv, NEW c \in Consumers, FindSite(c)
    PROVE  /\ \A d \in Consumers \ {c} : work'[d] = work[d]
           /\ work[c].pc = "lookup" /\ work'[c].pc = "select"
           /\ work'[c].offset = work[c].offset /\ work'[c].fetched = work[c].fetched
           /\ work'[c].month = clock /\ work'[c].ids = work[c].ids
  <1>1. work \in [Consumers -> Work] /\ work[c] \in Work
    BY DEF TypeInv, ConsumerTypeOK
  <1>2. work' = [work EXCEPT ![c] = [work[c] EXCEPT !.pc = "select", !.month = clock]]
    BY DEF FindSite
  <1>3. work[c].pc = "lookup"
    BY DEF FindSite, At
  <1> QED
    BY <1>1, <1>2, <1>3 DEF Work

LEMMA SelectPointsMoves ==
    ASSUME TypeInv, NEW c \in Consumers, SelectPoints(c)
    PROVE  /\ \A d \in Consumers \ {c} : work'[d] = work[d]
           /\ work[c].pc = "select" /\ work'[c].pc \in {"persist", "insert"}
           /\ work'[c].offset = work[c].offset /\ work'[c].fetched = work[c].fetched
           /\ work'[c].month = work[c].month
           /\ work'[c].ids = Wanted(c) \intersect (pointCache[c] \union points)
  <1> DEFINE found == Wanted(c) \intersect (pointCache[c] \union points)
             pc == IF found = Wanted(c) THEN "persist" ELSE "insert"
  <1>1. work \in [Consumers -> Work] /\ work[c] \in Work
    BY DEF TypeInv, ConsumerTypeOK
  <1>2. work' = [work EXCEPT ![c] = [work[c] EXCEPT !.ids = found, !.pc = pc]]
    BY DEF SelectPoints
  <1>3. work[c].pc = "select" /\ pc \in {"persist", "insert"}
    BY DEF SelectPoints, At
  <1> HIDE DEF found, pc
  <1>4. /\ \A d \in Consumers \ {c} : work'[d] = work[d]
        /\ work'[c].pc = pc /\ work'[c].ids = found
        /\ work'[c].offset = work[c].offset /\ work'[c].fetched = work[c].fetched
        /\ work'[c].month = work[c].month
    BY <1>1, <1>2 DEF Work
  <1> QED
    BY <1>3, <1>4 DEF found

LEMMA InsertPointsMoves ==
    ASSUME TypeInv, NEW c \in Consumers, InsertPoints(c)
    PROVE  /\ \A d \in Consumers \ {c} : work'[d] = work[d]
           /\ work[c].pc = "insert" /\ work'[c].pc = "persist"
           /\ work'[c].offset = work[c].offset /\ work'[c].fetched = work[c].fetched
           /\ work'[c].month = work[c].month
           /\ work'[c].ids = work[c].ids \union (Unresolved(c) \ points)
  <1> DEFINE ids == work[c].ids \union (Unresolved(c) \ points)
  <1>1. work \in [Consumers -> Work] /\ work[c] \in Work
    BY DEF TypeInv, ConsumerTypeOK
  <1>2. work' = [work EXCEPT ![c] = [work[c] EXCEPT !.ids = ids, !.pc = "persist"]]
    BY DEF InsertPoints
  <1>3. work[c].pc = "insert"
    BY DEF InsertPoints, At
  <1> HIDE DEF ids
  <1>4. /\ \A d \in Consumers \ {c} : work'[d] = work[d]
        /\ work'[c].pc = "persist" /\ work'[c].ids = ids
        /\ work'[c].offset = work[c].offset /\ work'[c].fetched = work[c].fetched
        /\ work'[c].month = work[c].month
    BY <1>1, <1>2 DEF Work
  <1> QED
    BY <1>3, <1>4 DEF ids

-----------------------------------------------------------------------------
(* Late measurements mark their month.  The month a handler compares with   *)
(* is captured after the fetch, and the clock does not run backwards.      *)

MonthsOrdered ==
    \A c \in Consumers :
        /\ At(c, "lookup") => work[c].fetched <= clock
        /\ work[c].pc \in {"select", "insert", "persist"} => work[c].fetched <= work[c].month

LEMMA MonthsOrderedNext ==
    ASSUME TypeInv, [Next]_consumerVars, MonthsOrdered
    PROVE  MonthsOrdered'
  <1> USE DEF TypeInv, MonthsOrdered, At
  <1>t. /\ clock \in Nat /\ work \in [Consumers -> Work]
        /\ \A c \in Consumers : work[c].fetched \in Nat /\ work[c].month \in Nat
    BY ConsumerAssumption DEF ConsumerTypeOK, Month, Work
  <1>i. Idle.pc = "idle"
    BY DEF Idle
  <1>1. ASSUME NEW c \in Consumers, Fetch(c) \/ GoesOn(c) PROVE MonthsOrdered'
    BY <1>1, <1>t DEF Fetch, GoesOn, Handling, environment
  <1>2. ASSUME NEW c \in Consumers, FindSite(c) PROVE MonthsOrdered'
    BY ZenonT(40), <1>2, <1>t, FindSiteMoves DEF FindSite, environment
  <1>3. ASSUME NEW c \in Consumers, SelectPoints(c) \/ InsertPoints(c) PROVE MonthsOrdered'
    <2>1. UNCHANGED clock
      BY <1>3 DEF SelectPoints, InsertPoints, environment
    <2>2. /\ \A d \in Consumers \ {c} : work'[d] = work[d]
          /\ work[c].pc \in {"select", "insert"} /\ work'[c].pc \in {"insert", "persist"}
          /\ work'[c].fetched = work[c].fetched /\ work'[c].month = work[c].month
      BY <1>3, SelectPointsMoves, InsertPointsMoves
    <2> QED
      BY <1>t, <2>1, <2>2
  <1>4. ASSUME NEW c \in Consumers, Reject(c) \/ UnknownSite(c) \/ Persist(c)
        PROVE  MonthsOrdered'
    <2>1. UNCHANGED clock
      BY <1>4 DEF Reject, UnknownSite, Persist, environment
    <2> QED
      BY <1>4, <1>t, <2>1, DoneMoves
  <1>5. ASSUME NEW c \in Consumers, work' = [work EXCEPT ![c] = Idle], UNCHANGED clock
        PROVE  MonthsOrdered'
    BY <1>5, <1>t, <1>i
  <1>6. ASSUME NEW c \in Consumers,
               \/ ResolveOffset(c) \/ HeartbeatThrows(c) \/ Crash(c)
               \/ FindSiteThrows(c) \/ SelectPointsThrows(c) \/ InsertPointsThrows(c)
               \/ PersistThrows(c) \/ PersistUnresolved(c) \/ PersistOverflows(c)
        PROVE  MonthsOrdered'
    <2>1. work' = [work EXCEPT ![c] = Idle] /\ UNCHANGED clock
      BY <1>6 DEF ResolveOffset, HeartbeatThrows, Crash, FindSiteThrows, SelectPointsThrows,
         InsertPointsThrows, PersistThrows, PersistUnresolved, PersistOverflows,
         StatementThrows, Throws, environment
    <2> QED
      BY <1>5, <2>1
  <1>7. ASSUME NEW c \in Consumers, Join(c) \/ Rebalance(c) PROVE MonthsOrdered'
    BY <1>7 DEF Join, Rebalance, Assign, environment
  <1>8. CASE EnvironmentNext
    BY <1>8, <1>t DEF EnvironmentNext, AppendMessage, CreateSite, MonthPasses
  <1>9. CASE UNCHANGED consumerVars
    BY <1>9 DEF consumerVars, environment
  <1> QED
    BY <1>1, <1>2, <1>3, <1>4, <1>6, <1>7, <1>8, <1>9
       DEF Next, ConsumerNext, ConsumerStep, ConsumerFault

LEMMA LateRowsAreStaleNext ==
    ASSUME TypeInv, MonthsOrdered, [Next]_consumerVars, LateRowsAreStale
    PROVE  LateRowsAreStale'
  <1>1. CASE UNCHANGED <<counts, staleMonths, late>>
    BY <1>1 DEF counts, LateRowsAreStale, KeyMonth
  <1>2. ASSUME NEW c \in Consumers, At(c, "persist"), Commit(c)
        PROVE  LateRowsAreStale'
    <2>1. work[c].fetched \in Nat /\ work[c].month \in Nat
          /\ work[c].fetched <= work[c].month
      BY <1>2 DEF TypeInv, ConsumerTypeOK, Work, MonthsOrdered, At
    <2>2. \A k \in Fresh(c) : KeyMonth(k) \in Nat
      BY <1>2, CommitInserts, KeyMonthTyped
    <2>3. \A k \in Fresh(c) : KeyMonth(k) < work[c].fetched => k \in LateKeys(c)
      BY <2>1, <2>2 DEF LateKeys
    <2>4. \A k \in late' :
             \/ k \in late
             \/ k \in Fresh(c) /\ k \in LateKeys(c)
      BY <1>2, <2>3 DEF Commit
    <2>5. /\ measurements' = measurements \union Fresh(c)
          /\ staleMonths \subseteq staleMonths'
          /\ \A k \in LateKeys(c) : <<k.site, KeyMonth(k)>> \in staleMonths'
      BY <1>2 DEF Commit, MarkMonthsStale
    <2>6. \A k \in late' : k \in measurements' /\ <<k.site, KeyMonth(k)>> \in staleMonths'
      BY <2>4, <2>5 DEF LateRowsAreStale
    <2> QED
      BY <2>6 DEF LateRowsAreStale, KeyMonth
  <1> QED
    BY <1>1, <1>2, TablesChangeInCommits

\* Whichever attempt stores a measurement of a month that was over when its
\* message was fetched, that month's total is marked stale.
THEOREM LateStale == Spec => []LateRowsAreStale
  <1>1. Init => MonthsOrdered /\ LateRowsAreStale
    BY DEF Init, ConsumerInit, MonthsOrdered, LateRowsAreStale, At, Idle
  <1> QED
    BY <1>1, TypeInvInit, TypeInvNext, MonthsOrderedNext, LateRowsAreStaleNext, PTL DEF Spec

-----------------------------------------------------------------------------
(* The foreign key never fails: nothing deletes an emission point, and what *)
(* a process has cached or resolved is in the table.                       *)

PointsInv ==
    /\ PointsExist
    /\ \A c \in Consumers : pointCache[c] \subseteq points
    /\ \A c \in Consumers :
          work[c].pc \in {"insert", "persist"} => work[c].ids \subseteq points

LEMMA PointsGrow ==
    ASSUME TypeInv, PointsInv, points \subseteq points', UNCHANGED <<measurements, pointCache>>,
           NEW c \in Consumers, work' = [work EXCEPT ![c] = Idle]
    PROVE  PointsInv'
  <1>1. Idle.pc = "idle"
    BY DEF Idle
  <1> QED
    BY <1>1 DEF TypeInv, ConsumerTypeOK, PointsInv, PointsExist

LEMMA PointsCommit ==
    ASSUME TypeInv, PointsInv, NEW c \in Consumers,
           At(c, "persist"), Unresolved(c) = {}, Commit(c)
    PROVE  PointsExist' /\ UNCHANGED points
  <1>1. \A k \in Fresh(c) : <<k.site, k.code>> \in Wanted(c)
    BY DEF Fresh, KeysOf, KeyOf, Wanted
  <1>2. Wanted(c) \subseteq points
    BY DEF Unresolved, PointsInv, At
  <1> QED
    BY <1>1, <1>2 DEF Commit, PointsInv, PointsExist

LEMMA PointsInvNext ==
    ASSUME TypeInv, [Next]_consumerVars, PointsInv
    PROVE  PointsInv'
  <1>t. work \in [Consumers -> Work] /\ pointCache \in [Consumers -> SUBSET Point]
    BY DEF TypeInv, ConsumerTypeOK
  <1>1. ASSUME NEW c \in Consumers, Fetch(c) \/ GoesOn(c) \/ FindSite(c)
        PROVE  PointsInv'
    <2>1. UNCHANGED <<points, measurements, pointCache>>
      BY <1>1 DEF Fetch, GoesOn, FindSite, tables, caches
    <2>2. /\ \A d \in Consumers \ {c} : work'[d] = work[d]
          /\ work'[c].pc \in {"lookup", "select"}
      BY <1>1, <1>t, FindSiteMoves DEF Fetch, GoesOn, Handling
    <2> QED
      BY <2>1, <2>2 DEF PointsInv, PointsExist
  <1>2. ASSUME NEW c \in Consumers, Reject(c) \/ UnknownSite(c) PROVE PointsInv'
    <2>1. UNCHANGED <<points, measurements, pointCache>>
      BY <1>2 DEF Reject, UnknownSite, tables, caches
    <2> QED
      BY <1>2, <2>1, DoneMoves DEF PointsInv, PointsExist
  <1>3. ASSUME NEW c \in Consumers, SelectPoints(c) PROVE PointsInv'
    <2>1. /\ work'[c].ids \subseteq points
          /\ \A d \in Consumers \ {c} : work'[d] = work[d]
      BY <1>3, SelectPointsMoves DEF PointsInv
    <2>2. \A d \in Consumers : pointCache'[d] \subseteq points
      BY <1>3, <1>t DEF SelectPoints, PointsInv
    <2> QED
      BY <1>3, <2>1, <2>2 DEF SelectPoints, PointsInv, PointsExist, tables
  <1>4. ASSUME NEW c \in Consumers, InsertPoints(c) PROVE PointsInv'
    <2>1. points' = points \union (Unresolved(c) \ points)
      BY <1>4 DEF InsertPoints
    <2>2. /\ work'[c].ids \subseteq points'
          /\ \A d \in Consumers \ {c} : work'[d] = work[d]
      BY <1>4, <2>1, InsertPointsMoves DEF PointsInv
    <2>3. \A d \in Consumers : pointCache'[d] \subseteq points'
      BY <1>4, <1>t, <2>1 DEF InsertPoints, PointsInv
    <2> QED
      BY <1>4, <2>1, <2>2, <2>3 DEF InsertPoints, PointsInv, PointsExist
  <1>5. ASSUME NEW c \in Consumers, Persist(c) PROVE PointsInv'
    <2>1. PointsExist' /\ UNCHANGED points
      BY <1>5, PointsCommit DEF Persist
    <2> QED
      BY <1>5, <1>t, <2>1 DEF Persist, Goto, PointsInv, caches
  <1>6. ASSUME NEW c \in Consumers, PersistThrows(c) PROVE PointsInv'
    <2>1. PointsExist' /\ UNCHANGED points
      <3>1. CASE Commit(c)
        BY <1>6, <3>1, PointsCommit DEF PersistThrows
      <3>2. CASE UNCHANGED tables
        BY <3>2 DEF tables, PointsInv, PointsExist
      <3> QED
        BY <1>6, <3>1, <3>2 DEF PersistThrows
    <2>2. Idle.pc = "idle"
      BY DEF Idle
    <2> QED
      BY <1>6, <1>t, <2>1, <2>2 DEF PersistThrows, Throws, PointsInv, caches
  <1>7. ASSUME NEW c \in Consumers,
               \/ ResolveOffset(c) \/ HeartbeatThrows(c)
               \/ FindSiteThrows(c) \/ SelectPointsThrows(c) \/ InsertPointsThrows(c)
               \/ PersistUnresolved(c) \/ PersistOverflows(c)
        PROVE  PointsInv'
    <2>1. /\ work' = [work EXCEPT ![c] = Idle]
          /\ points \subseteq points' /\ UNCHANGED <<measurements, pointCache>>
      BY <1>7 DEF ResolveOffset, HeartbeatThrows, FindSiteThrows, SelectPointsThrows,
         InsertPointsThrows, PersistUnresolved, PersistOverflows, StatementThrows, Throws,
         tables, caches
    <2> QED
      BY <2>1, PointsGrow
  <1>8. ASSUME NEW c \in Consumers, Crash(c) PROVE PointsInv'
    <2>1. Idle.pc = "idle"
      BY DEF Idle
    <2> QED
      BY <1>8, <1>t, <2>1 DEF Crash, PointsInv, PointsExist, tables
  <1>9. ASSUME NEW c \in Consumers, Join(c) \/ Rebalance(c) PROVE PointsInv'
    BY <1>9 DEF Join, Rebalance, Assign, PointsInv, PointsExist, tables, caches
  <1>10. CASE EnvironmentNext \/ UNCHANGED consumerVars
    BY <1>10 DEF EnvironmentNext, consumerVars, PointsInv, PointsExist, tables, caches
  <1> QED
    BY <1>1, <1>2, <1>3, <1>4, <1>5, <1>6, <1>7, <1>8, <1>9, <1>10
       DEF Next, ConsumerNext, ConsumerStep, ConsumerFault

\* The emission-point ids resolved outside the transaction are valid inside it,
\* in whatever order processes look up, insert, cache, crash and commit.
THEOREM PointsCorrect == Spec => []PointsExist
  <1>1. Init => PointsInv
    BY DEF Init, ConsumerInit, PointsInv, PointsExist, Idle
  <1>2. PointsInv => PointsExist
    BY DEF PointsInv
  <1> QED
    BY <1>1, <1>2, TypeInvInit, TypeInvNext, PointsInvNext, PTL DEF Spec

-----------------------------------------------------------------------------
(* Offsets.  The owner's handler works at the owner's position, and what a  *)
(* handler is about to resolve has been settled.                           *)

OffsetsInv ==
    /\ NothingSkippedSinceStart
    /\ committed <= position
    /\ \A c \in Consumers :
          /\ owner = c /\ work[c].pc # "idle" => work[c].offset = position
          /\ At(c, "resolve") => work[c].offset \in Settled

\* Steps that leave the group alone, settle at most more offsets, and move one
\* handler without changing its offset.
LEMMA OffsetsKept ==
    ASSUME TypeInv, OffsetsInv, UNCHANGED group, Settled \subseteq Settled',
           NEW c \in Consumers, \A d \in Consumers \ {c} : work'[d] = work[d],
           work'[c].pc # "idle" =>
               work'[c].offset = work[c].offset /\ work[c].pc # "idle",
           work'[c].pc = "resolve" => work[c].offset \in Settled'
    PROVE  OffsetsInv'
  <1>1. NothingSkippedSinceStart'
    BY DEF OffsetsInv, NothingSkippedSinceStart, group
  <1>2. (committed <= position)'
    BY DEF OffsetsInv, group
  <1>3. ASSUME NEW d \in Consumers
        PROVE  /\ owner' = d /\ work'[d].pc # "idle" => work'[d].offset = position'
               /\ work'[d].pc = "resolve" => work'[d].offset \in Settled'
    BY DEF OffsetsInv, group, At
  <1> QED
    BY <1>1, <1>2, <1>3 DEF OffsetsInv, At

LEMMA OffsetsInvNext ==
    ASSUME TypeInv, [Next]_consumerVars, OffsetsInv
    PROVE  OffsetsInv' /\ committed' >= committed
  <1>t. /\ work \in [Consumers -> Work] /\ position \in Nat \ {0} /\ committed \in Nat
        /\ start \in Nat \ {0} /\ \A c \in Consumers : work[c].offset \in Nat
    BY DEF TypeInv, ConsumerTypeOK, Work
  <1>i. Idle.pc = "idle"
    BY DEF Idle
  <1>1. ASSUME NEW c \in Consumers, Fetch(c) PROVE OffsetsInv' /\ UNCHANGED committed
    <2>1. UNCHANGED <<group, outcomes>>
      BY <1>1 DEF Fetch
    <2>2. NothingSkippedSinceStart' /\ (committed <= position)' /\ UNCHANGED committed
      BY <2>1 DEF OffsetsInv, NothingSkippedSinceStart, Settled, group, outcomes
    <2>3. /\ \A d \in Consumers \ {c} : work'[d] = work[d]
          /\ work'[c].pc = "lookup" /\ work'[c].offset = position
      BY <1>1, <1>t DEF Fetch, Handling
    <2> QED
      BY <2>1, <2>2, <2>3 DEF OffsetsInv, Settled, At, group, outcomes
  <1>g. ASSUME NEW c \in Consumers, GoesOn(c) PROVE OffsetsInv' /\ UNCHANGED committed
    <2>1. UNCHANGED <<group, outcomes>> /\ owner # c
      BY <1>g DEF GoesOn
    <2>2. NothingSkippedSinceStart' /\ (committed <= position)' /\ UNCHANGED committed
      BY <2>1 DEF OffsetsInv, NothingSkippedSinceStart, Settled, group, outcomes
    <2>3. /\ \A d \in Consumers \ {c} : work'[d] = work[d]
          /\ work'[c].pc = "lookup"
      BY <1>g, <1>t DEF GoesOn, Handling
    <2> QED
      BY <2>1, <2>2, <2>3 DEF OffsetsInv, Settled, At, group, outcomes
  <1>2. ASSUME NEW c \in Consumers, Reject(c) \/ UnknownSite(c) \/ Persist(c)
        PROVE  OffsetsInv' /\ UNCHANGED committed
    <2>1. UNCHANGED group /\ Settled' = Settled \union {work[c].offset}
      BY <1>2 DEF Reject, UnknownSite, Persist, Settled
    <2> QED
      BY <1>2, <2>1, DoneMoves, OffsetsKept DEF group
  <1>3. ASSUME NEW c \in Consumers, FindSite(c) \/ SelectPoints(c) \/ InsertPoints(c)
        PROVE  OffsetsInv' /\ UNCHANGED committed
    <2>1. UNCHANGED group /\ Settled' = Settled
      BY <1>3 DEF FindSite, SelectPoints, InsertPoints, Settled, outcomes
    <2>2. /\ \A d \in Consumers \ {c} : work'[d] = work[d]
          /\ work[c].pc # "idle" /\ work'[c].pc # "resolve"
          /\ work'[c].offset = work[c].offset
      BY <1>3, FindSiteMoves, SelectPointsMoves, InsertPointsMoves
    <2> QED
      BY <2>1, <2>2, OffsetsKept DEF group
  <1>4. ASSUME NEW c \in Consumers,
               \/ HeartbeatThrows(c)
               \/ FindSiteThrows(c) \/ SelectPointsThrows(c) \/ InsertPointsThrows(c)
               \/ PersistUnresolved(c) \/ PersistOverflows(c) \/ PersistThrows(c)
        PROVE  OffsetsInv' /\ UNCHANGED committed
    <2>1. /\ work' = [work EXCEPT ![c] = Idle]
          /\ UNCHANGED group /\ Settled' = Settled
      BY <1>4 DEF HeartbeatThrows, FindSiteThrows, SelectPointsThrows, InsertPointsThrows,
         PersistUnresolved, PersistOverflows, PersistThrows, StatementThrows, Throws,
         Settled, outcomes
    <2>2. /\ \A d \in Consumers \ {c} : work'[d] = work[d]
          /\ work'[c].pc = "idle"
      BY <1>t, <1>i, <2>1
    <2> QED
      BY <2>1, <2>2, OffsetsKept DEF group
  <1>5. ASSUME NEW c \in Consumers, ResolveOffset(c)
        PROVE  OffsetsInv' /\ committed' >= committed
    <2>1. /\ work[c].offset = position /\ work[c].offset \in Settled
          /\ position' = position + 1 /\ committed' \in {committed, position + 1}
          /\ UNCHANGED <<owner, start>> /\ Settled' = Settled
      BY <1>5 DEF ResolveOffset, OffsetsInv, At, Settled, outcomes
    <2>2. /\ \A d \in Consumers \ {c} : work'[d] = work[d]
          /\ work'[c].pc = "idle" /\ owner = c
      BY <1>5, <1>t, <1>i DEF ResolveOffset
    <2>3. start..(position' - 1) \subseteq Settled
      <3>1. start..position \subseteq (start..(position - 1)) \union {position}
        BY <1>t
      <3> QED
        BY <1>t, <2>1, <3>1 DEF OffsetsInv, NothingSkippedSinceStart
    <2>4. NothingSkippedSinceStart'
      BY <1>t, <2>1, <2>3 DEF OffsetsInv, NothingSkippedSinceStart
    <2>5. committed' <= position' /\ committed' >= committed
      BY <1>t, <2>1 DEF OffsetsInv
    <2> QED
      BY <2>1, <2>2, <2>4, <2>5 DEF OffsetsInv, Settled, At
  <1>6. ASSUME NEW c \in Consumers, Join(c) \/ Rebalance(c)
        PROVE  OffsetsInv' /\ UNCHANGED committed
    <2>1. /\ work[c].pc = "idle" /\ owner' = c /\ UNCHANGED <<committed, work>>
          /\ Settled' = Settled
      BY <1>6 DEF Join, Rebalance, Assign, At, Settled, outcomes
    <2>2. \/ committed # 0 /\ position' = committed /\ start' = start
          \/ committed = 0 /\ position' = start'
      BY <1>6 DEF Join, Rebalance, Assign, NoOffset
    <2>3. position' \in Nat /\ start' \in Nat
      BY TypeInvNext DEF TypeInv, ConsumerTypeOK
    <2>4. NothingSkippedSinceStart'
      <3>1. CASE committed # 0 /\ position' = committed /\ start' = start
        <4>1. start..(committed - 1) \subseteq Settled
          BY <3>1 DEF OffsetsInv, NothingSkippedSinceStart, NoOffset
        <4> QED
          BY <2>1, <3>1, <4>1 DEF NothingSkippedSinceStart
      <3>2. CASE committed = 0 /\ position' = start'
        <4>1. \A n \in Nat : n..(n - 1) = {}
          OBVIOUS
        <4>2. start'..(position' - 1) = {}
          BY <2>3, <3>2, <4>1
        <4> QED
          BY <2>1, <3>2, <4>2 DEF NothingSkippedSinceStart, NoOffset
      <3> QED
        BY <2>2, <3>1, <3>2
    <2>5. committed' <= position'
      BY <1>t, <2>1, <2>2, <2>3
    <2> QED
      BY <2>1, <2>4, <2>5 DEF OffsetsInv, At
  <1>7. ASSUME NEW c \in Consumers, Crash(c) PROVE OffsetsInv' /\ UNCHANGED committed
    <2>1. /\ owner' \in {owner, Nobody} /\ UNCHANGED <<position, committed, start>>
          /\ Settled' = Settled
      BY <1>7 DEF Crash, Settled, outcomes
    <2>2. /\ \A d \in Consumers \ {c} : work'[d] = work[d]
          /\ work'[c].pc = "idle"
      BY <1>7, <1>t, <1>i DEF Crash
    <2>3. Nobody \notin Consumers
      BY ConsumerAssumption
    <2>4. NothingSkippedSinceStart'
      BY <2>1 DEF OffsetsInv, NothingSkippedSinceStart
    <2> QED
      BY <2>1, <2>2, <2>3, <2>4 DEF OffsetsInv, At
  <1>8. CASE EnvironmentNext \/ UNCHANGED consumerVars
    BY <1>8, <1>t DEF EnvironmentNext, consumerVars, group, outcomes, OffsetsInv,
       NothingSkippedSinceStart, Settled, At
  <1> QED
    BY <1>t, <1>1, <1>g, <1>2, <1>3, <1>4, <1>5, <1>6, <1>7, <1>8
       DEF Next, ConsumerNext, ConsumerStep, ConsumerFault

LEMMA OffsetsInvInit == Init => OffsetsInv
  <1>1. Idle.pc = "idle"
    BY DEF Idle
  <1> QED
    BY <1>1 DEF Init, ConsumerInit, OffsetsInv, NothingSkippedSinceStart, NoOffset, At

\* Nothing between the group's start and its offsets is skipped: not by a
\* redelivery, a handover in the middle of a batch, or a late previous owner.
THEOREM NothingSkipped == Spec => []NothingSkippedSinceStart
  <1>1. OffsetsInv => NothingSkippedSinceStart
    BY DEF OffsetsInv
  <1> QED
    BY <1>1, TypeInvInit, TypeInvNext, OffsetsInvInit, OffsetsInvNext, PTL DEF Spec

\* The committed offset never moves backwards.
THEOREM CommittedMonotone == Spec => CommittedNeverRegresses
  <1>1. TypeInv /\ OffsetsInv /\ [Next]_consumerVars => [committed' >= committed]_consumerVars
    BY OffsetsInvNext
  <1>2. TypeInv /\ OffsetsInv /\ [Next]_consumerVars => OffsetsInv'
    BY OffsetsInvNext
  <1> QED
    BY <1>1, <1>2, TypeInvInit, TypeInvNext, OffsetsInvInit, PTL DEF Spec, CommittedNeverRegresses

-----------------------------------------------------------------------------
(* What counts as persisted is stored.                                     *)

StoredInv ==
    \A i \in persisted : i \in DOMAIN log /\ KeysOf(log[i]) \subseteq measurements

LEMMA LogGrows ==
    ASSUME TypeInv, [Next]_consumerVars
    PROVE  \A i \in DOMAIN log : i \in DOMAIN log' /\ log'[i] = log[i]
  <1>1. ASSUME NEW c \in Consumers, ConsumerStep(c) \/ ConsumerFault(c)
        PROVE  UNCHANGED log
    BY <1>1 DEF ConsumerStep, ConsumerFault, Fetch, Reject, UnknownSite, FindSite,
       SelectPoints, InsertPoints, Persist, PersistUnresolved, PersistOverflows,
       ResolveOffset, HeartbeatThrows, GoesOn, Join, Assign, FindSiteThrows, SelectPointsThrows,
       InsertPointsThrows, PersistThrows, Rebalance, Crash, environment
  <1>2. CASE EnvironmentNext
    <2>1. CASE AppendMessage
      BY <2>1 DEF AppendMessage, TypeInv, ConsumerTypeOK
    <2>2. CASE CreateSite \/ MonthPasses
      BY <2>2 DEF CreateSite, MonthPasses
    <2> QED
      BY <1>2, <2>1, <2>2 DEF EnvironmentNext
  <1>3. CASE UNCHANGED consumerVars
    BY <1>3 DEF consumerVars, environment
  <1> QED
    BY <1>1, <1>2, <1>3 DEF Next, ConsumerNext

LEMMA PersistedGrows ==
    ASSUME TypeInv, [Next]_consumerVars
    PROVE  \/ UNCHANGED persisted
           \/ \E c \in Consumers : Persist(c)
  <1>1. ASSUME NEW c \in Consumers, ConsumerStep(c) \/ ConsumerFault(c), ~ Persist(c)
        PROVE  UNCHANGED persisted
    BY <1>1 DEF ConsumerStep, ConsumerFault, Fetch, Reject, UnknownSite, FindSite,
       SelectPoints, InsertPoints, PersistUnresolved, PersistOverflows,
       ResolveOffset, HeartbeatThrows, GoesOn, Join, Assign, FindSiteThrows, SelectPointsThrows,
       InsertPointsThrows, PersistThrows, Rebalance, Crash, StatementThrows, Throws, outcomes
  <1>2. CASE EnvironmentNext \/ UNCHANGED consumerVars
    BY <1>2 DEF EnvironmentNext, consumerVars, outcomes
  <1> QED
    BY <1>1, <1>2 DEF Next, ConsumerNext

LEMMA MeasurementsGrow ==
    ASSUME TypeInv, [Next]_consumerVars
    PROVE  measurements \subseteq measurements'
  BY TablesChangeInCommits DEF counts, Commit

LEMMA StoredInvNext ==
    ASSUME TypeInv, [Next]_consumerVars, StoredInv
    PROVE  StoredInv'
  <1>1. ASSUME NEW i \in DOMAIN log, KeysOf(log[i]) \subseteq measurements'
        PROVE  i \in DOMAIN log' /\ KeysOf(log'[i]) \subseteq measurements'
    <2>1. i \in DOMAIN log' /\ log'[i] = log[i]
      BY LogGrows
    <2> QED
      BY <1>1, <2>1
  <1>2. ASSUME NEW i \in persisted'
        PROVE  i \in DOMAIN log /\ KeysOf(log[i]) \subseteq measurements'
    <2>1. CASE i \in persisted
      BY <2>1, MeasurementsGrow DEF StoredInv
    <2>2. CASE i \notin persisted
      <3>1. PICK c \in Consumers : Persist(c)
        BY <2>2, PersistedGrows
      <3>2. i = work[c].offset /\ At(c, "persist") /\ Commit(c)
        BY <2>2, <3>1 DEF Persist
      <3>3. i \in DOMAIN log
        BY <3>2 DEF TypeInv, InFlight, At
      <3>4. KeysOf(Current(c)) \subseteq measurements'
        BY <3>2, CommitInserts DEF Fresh
      <3> QED
        BY <3>2, <3>3, <3>4 DEF Current
    <2> QED
      BY <2>1, <2>2
  <1>3. \A m : KeysOf(m)' = KeysOf(m)
    BY DEF KeysOf, KeyOf, Items
  <1> QED
    BY <1>1, <1>2 DEF StoredInv

\* A message that counts as persisted has all its measurements in the table.
THEOREM PersistedStored == Spec => []PersistedIsStored
  <1>1. Init => StoredInv
    BY DEF Init, ConsumerInit, StoredInv
  <1>2. StoredInv => PersistedIsStored
    BY DEF StoredInv, PersistedIsStored
  <1> QED
    BY <1>1, <1>2, TypeInvInit, TypeInvNext, StoredInvNext, PTL DEF Spec

-----------------------------------------------------------------------------
(* The consumer implements the ledger.                                     *)

offered == {log[i] : i \in DOMAIN log}
reported == UNION {{<<k, <<r.site, r.month>>>> : k \in r.rows} : r \in metricsOutbox}
announced == UNION {InsertedBy(i) : i \in DOMAIN outbox}

LEMMA CommitCounts ==
    ASSUME TypeInv, NEW c \in Consumers, At(c, "persist"), Commit(c), UNCHANGED log
    PROVE  Ledger!Count
  <1>1. Current(c) \in offered
    BY DEF offered, Current, TypeInv, InFlight, At
  <1>2. /\ Fresh(c) = KeysOf(Current(c)) \ measurements
        /\ measurements' = measurements \union Fresh(c)
    BY DEF Fresh, Commit
  <1>3. reported' = reported \union {<<k, CellOf(k)>> : k \in Fresh(c)}
    <2> DEFINE new == {DeltaRow(c, KeyMonth(k)) : k \in Fresh(c)}
               Cells(rows) == UNION {{<<k, <<r.site, r.month>>>> : k \in r.rows} : r \in rows}
    <2>1. metricsOutbox' = metricsOutbox \union new
      BY DEF Commit, WriteMetricsOutbox
    <2>2. reported = Cells(metricsOutbox) /\ reported' = Cells(metricsOutbox')
      BY DEF reported
    <2>3. Cells(metricsOutbox') = Cells(metricsOutbox) \union Cells(new)
      BY <2>1
    <2>4. Cells(new) = {<<k, CellOf(k)>> : k \in Fresh(c)}
      <3>1. ASSUME NEW r \in new, NEW k \in r.rows
            PROVE  k \in Fresh(c) /\ <<r.site, r.month>> = CellOf(k)
        <4>1. r.site = Current(c).site /\ r.rows = {l \in Fresh(c) : KeyMonth(l) = r.month}
          BY DEF DeltaRow
        <4>2. k \in Fresh(c) /\ KeyMonth(k) = r.month /\ k.site = Current(c).site
          BY <4>1 DEF Fresh, KeysOf, KeyOf
        <4> QED
          BY <4>1, <4>2 DEF CellOf
      <3>2. ASSUME NEW k \in Fresh(c)
            PROVE  \E r \in new : k \in r.rows /\ <<r.site, r.month>> = CellOf(k)
        <4>1. DeltaRow(c, KeyMonth(k)) \in new /\ k \in DeltaRow(c, KeyMonth(k)).rows
          BY DEF DeltaRow
        <4> QED
          BY <3>1, <4>1
      <3> HIDE DEF new
      <3> QED
        BY <3>1, <3>2
    <2> QED
      BY <2>2, <2>3, <2>4
  <1>4. announced' = announced \union Fresh(c)
    <2> DEFINE n == Len(outbox)
    <2>1. n \in Nat
      BY DEF TypeInv, ConsumerTypeOK
    <2>2. /\ DOMAIN outbox = 1..n /\ DOMAIN outbox' = 1..(n + 1)
          /\ outbox'[n + 1].inserted = Fresh(c)
          /\ \A i \in 1..n : outbox'[i].inserted = outbox[i].inserted
      BY CommitInserts
    <2> HIDE DEF n
    <2>3. 1..(n + 1) = (1..n) \union {n + 1}
      BY <2>1
    <2> QED
      BY <2>2, <2>3 DEF announced, InsertedBy
  <1>5. UNCHANGED offered
    BY DEF offered
  <1> QED
    BY <1>1, <1>2, <1>3, <1>4, <1>5 DEF Ledger!Count, offered, reported, announced

LEMMA LedgerStep ==
    ASSUME TypeInv, [Next]_consumerVars
    PROVE  [Ledger!LedgerNext]_(Ledger!ledgerVars)
  <1>1. CASE UNCHANGED <<counts, staleMonths, late>>
    <2>1. offered \subseteq offered'
      BY LogGrows DEF offered
    <2>2. UNCHANGED <<measurements, reported, announced>>
      BY <1>1 DEF counts, reported, announced, InsertedBy
    <2> QED
      BY <2>1, <2>2 DEF Ledger!LedgerNext, Ledger!Offer, offered, reported, announced
  <1>2. ASSUME NEW c \in Consumers, At(c, "persist"), Commit(c), UNCHANGED log
        PROVE  Ledger!LedgerNext
    BY <1>2, CommitCounts DEF Ledger!LedgerNext
  <1> QED
    BY <1>1, <1>2, TablesChangeInCommits

\* The consumer implements EmissionsLedger: every step of its processes, their
\* failures included, counts the measurements of one batch in all three places
\* at once, or none of them anywhere.
THEOREM ImplementsLedger == Spec => LedgerSpec
  <1>1. Init => Ledger!LedgerInit
    BY DEF Init, ConsumerInit, Ledger!LedgerInit, InsertedBy
  <1> QED
    BY <1>1, TypeInvInit, TypeInvNext, LedgerStep, PTL DEF Spec, LedgerSpec, Ledger!LedgerSpec

=============================================================================
