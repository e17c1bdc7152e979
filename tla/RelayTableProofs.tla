-------------------------- MODULE RelayTableProofs --------------------------
(***************************************************************************)
(* What every step of a relay does to its table, for every value of the    *)
(* constants.  The three relays take these lemmas by instantiation, each   *)
(* with its own table and with what its other side has received.           *)
(***************************************************************************)
EXTENDS RelayTable, FiniteSetTheorems, TLAPS

VARIABLE reached    \* rows whose content reached the other side

-----------------------------------------------------------------------------
(* The inductive invariant of a table.                                     *)

Delivered == {r \in DOMAIN table : table[r].delivered}
InHand(r) == \E w \in Workers : r \in Handled(w)

\* No two open transactions hold one row, and a transaction has one use for it.
HeldApart == \A v, w \in Workers : v # w => Held(v) \cap Held(w) = {}
PartsApart ==
    \A w \in Workers : work[w].todo \cap Handled(w) = {} /\ work[w].ok \cap work[w].bad = {}
HeldPending == \A w \in Workers : Held(w) \cap Delivered = {}

\* SendsAccounted, with the one transaction a row can be in; a row that is still
\* to be inserted was never sent.
Accounted(r) ==
    sent[r] = table[r].attempts + undone[r] + (IF table[r].delivered THEN 1 ELSE 0)
              + (IF InHand(r) THEN 1 ELSE 0)
SendsCounted(ids) ==
    /\ \A r \in DOMAIN table : Accounted(r)
    /\ \A r \in ids \ DOMAIN table : sent[r] = 0 /\ undone[r] = 0

\* Every attempt a row counts, or is about to, was a failure.
AttemptsAreFaults ==
    /\ \A r \in DOMAIN table : table[r].attempts <= faults
    /\ \A w \in Workers : \A r \in work[w].bad : table[r].attempts < faults

\* A row is delivered, or marked so, after its content reached the other side.
ReachedFirst ==
    /\ reached \subseteq DOMAIN table
    /\ Delivered \subseteq reached
    /\ \A w \in Workers : work[w].ok \subseteq reached

TableInv(ids) ==
    /\ TableTypeOK(ids)
    /\ HeldApart /\ PartsApart /\ HeldPending
    /\ SendsCounted(ids)
    /\ AttemptsAreFaults /\ ReachedFirst

RollsBack(w) == \E flying : Rollback(w, flying)

\* What a step of the system may be to this table: a step of one of its relay's
\* ticks, the passing of time, an insertion, or none of its business.
Touch(ids) ==
    \/ \E w \in Workers :
          \/ Tick(w) \/ Commit(w) \/ RollsBack(w)
          \/ \E r \in DOMAIN table :
                \/ Sent(w, r, "ok") /\ r \in reached'
                \/ Sent(w, r, "bad") /\ faults < faults'
    \/ \E more \in SUBSET ids : Insert(more)
    \/ Elapse
    \/ UNCHANGED <<table, work, sent, undone>>

Progress ==
    /\ faults \in Nat /\ faults' \in Nat /\ faults <= faults'
    /\ reached \subseteq reached' /\ reached' \subseteq DOMAIN table

-----------------------------------------------------------------------------
(* The rest a row gets.                                                    *)

LEMMA RestTyped ==
    ASSUME NEW n \in Nat, NEW freeze \in Nat, NEW j \in 0..Jitter
    PROVE  Rest(n, freeze, j) \in Nat
  BY RelayAssumption DEF Rest

LEMMA FailedTyped ==
    ASSUME NEW row \in Row, NEW freeze \in Nat, NEW j \in 0..Jitter
    PROVE  /\ Failed(row, freeze, j) \in Row
           /\ Failed(row, freeze, j).attempts = row.attempts + 1
           /\ Failed(row, freeze, j).delivered = row.delivered
  <1> DEFINE n == row.attempts + 1
             rest == Rest(n, freeze, j)
  <1>1. n \in Nat
    BY DEF Row
  <1>2. rest \in Nat
    BY <1>1, RestTyped
  <1>3. Failed(row, freeze, j) = [row EXCEPT !.attempts = n, !.wait = rest]
    BY DEF Failed
  <1> HIDE DEF n, rest
  <1>4. [row EXCEPT !.attempts = n, !.wait = rest] \in Row
    BY <1>1, <1>2 DEF Row
  <1> QED
    BY <1>1, <1>3, <1>4 DEF Row, n

\* The table after a commit.
LEMMA CommitRows ==
    ASSUME NEW ids, TableTypeOK(ids), PartsApart, Freeze \in Nat,
           NEW w \in Workers, Commit(w)
    PROVE  /\ DOMAIN table' = DOMAIN table
           /\ \A r \in DOMAIN table :
                 /\ table'[r] \in Row
                 /\ table'[r].attempts =
                        IF r \in work[w].bad THEN table[r].attempts + 1 ELSE table[r].attempts
                 /\ table'[r].delivered = (r \in work[w].ok \/ table[r].delivered)
  <1> USE DEF TableTypeOK
  <1>1. PICK jitter \in [work[w].bad -> 0..Jitter] :
            table' = [r \in DOMAIN table |-> CommittedRow(w, r, jitter)]
    BY DEF Commit
  <1>2. ASSUME NEW r \in DOMAIN table
        PROVE  /\ CommittedRow(w, r, jitter) \in Row
               /\ CommittedRow(w, r, jitter).attempts =
                      IF r \in work[w].bad THEN table[r].attempts + 1 ELSE table[r].attempts
               /\ CommittedRow(w, r, jitter).delivered = (r \in work[w].ok \/ table[r].delivered)
    <2>1. table[r] \in Row
      OBVIOUS
    <2>2. CASE r \in work[w].ok
      <3>1. r \notin work[w].bad
        BY <2>2 DEF PartsApart
      <3> QED
        BY <2>1, <2>2, <3>1 DEF CommittedRow, Row
    <2>3. CASE r \notin work[w].ok /\ r \in work[w].bad
      <3>1. CommittedRow(w, r, jitter) = Failed(table[r], Freeze, jitter[r])
        BY <2>3 DEF CommittedRow
      <3>2. jitter[r] \in 0..Jitter
        BY <2>3
      <3>3. PICK row \in Row, j \in 0..Jitter : row = table[r] /\ j = jitter[r]
        BY <2>1, <3>2
      <3>4. /\ Failed(row, Freeze, j) \in Row
            /\ Failed(row, Freeze, j).attempts = row.attempts + 1
            /\ Failed(row, Freeze, j).delivered = row.delivered
        BY FailedTyped
      <3>5. /\ CommittedRow(w, r, jitter) \in Row
            /\ CommittedRow(w, r, jitter).attempts = table[r].attempts + 1
            /\ CommittedRow(w, r, jitter).delivered = table[r].delivered
        BY <3>1, <3>3, <3>4
      <3>6. table[r].delivered \in BOOLEAN
        BY <2>1 DEF Row
      <3>7. table[r].delivered = (r \in work[w].ok \/ table[r].delivered)
        BY <2>3, <3>6
      <3> HIDE DEF TableTypeOK
      <3> QED
        BY <2>3, <3>5, <3>7
    <2>4. CASE r \notin work[w].ok /\ r \notin work[w].bad
      BY <2>1, <2>4 DEF CommittedRow, Row
    <2> QED
      BY <2>2, <2>3, <2>4
  <1> QED
    BY <1>1, <1>2

-----------------------------------------------------------------------------
(* One lemma per kind of step.                                             *)

LEMMA TickStep ==
    ASSUME NEW ids, TableInv(ids), Progress, NEW w \in Workers, Tick(w)
    PROVE  TableInv(ids)'
  <1> USE DEF TableInv, TableTypeOK
  <1>1. PICK batch \in SUBSET Free : work' = [work EXCEPT ![w].todo = batch]
    BY DEF Tick
  <1>2. UNCHANGED <<table, sent, undone>> /\ work[w] = Idle
    BY DEF Tick
  <1>3. batch \subseteq DOMAIN table /\ batch \cap Locked = {} /\ batch \cap Delivered = {}
    BY DEF Free, Due, Delivered
  <1>4. /\ work'[w].todo = batch /\ work'[w].ok = {} /\ work'[w].bad = {}
        /\ \A v \in Workers : v # w => work'[v] = work[v]
    <2>1. work'[w] = [work[w] EXCEPT !.todo = batch]
      BY <1>1
    <2>3. work[w].todo = {} /\ work[w].ok = {} /\ work[w].bad = {}
      BY <1>2 DEF Idle
    <2>2. work'[w].todo = batch /\ work'[w].ok = {} /\ work'[w].bad = {}
      BY <2>1, <2>3
    <2> QED
      BY <1>1, <2>2
  <1>5. TableTypeOK(ids)'
    BY <1>1, <1>2, <1>3
  <1>6. /\ Held(w) = {} /\ Handled(w) = {} /\ Held(w)' = batch /\ Handled(w)' = {}
        /\ \A v \in Workers : v # w => Held(v)' = Held(v) /\ Handled(v)' = Handled(v)
    BY <1>2, <1>4 DEF Held, Handled, Idle
  <1>7. HeldApart' /\ PartsApart' /\ HeldPending'
    <2>1. \A v \in Workers : Held(v) \subseteq Locked
      BY DEF Locked
    <2>2. Delivered' = Delivered
      BY <1>2 DEF Delivered
    <2>3. HeldApart' /\ HeldPending'
      BY <1>3, <1>6, <2>1, <2>2 DEF HeldApart, HeldPending
    <2>4. PartsApart'
      BY <1>4, <1>6 DEF PartsApart
    <2> QED
      BY <2>3, <2>4
  <1>8. SendsCounted(ids)'
    <2>1. \A r : InHand(r)' = InHand(r)
      BY <1>6 DEF InHand
    <2> QED
      BY <1>2, <2>1 DEF SendsCounted, Accounted
  <1>9. AttemptsAreFaults' /\ ReachedFirst'
    <2>1. \A r \in DOMAIN table : table[r].attempts \in Nat
      BY DEF Row
    <2>2. \A v \in Workers : work'[v].ok \subseteq work[v].ok /\ work'[v].bad \subseteq work[v].bad
      BY <1>2, <1>4 DEF Idle
    <2>3. AttemptsAreFaults'
      BY <1>2, <2>1, <2>2 DEF AttemptsAreFaults, Progress
    <2>4. ReachedFirst'
      BY <1>2, <2>2 DEF ReachedFirst, Delivered, Progress
    <2> QED
      BY <2>3, <2>4
  <1> QED
    BY <1>5, <1>7, <1>8, <1>9

LEMMA SentStep ==
    ASSUME NEW ids, TableInv(ids), Progress, NEW w \in Workers, NEW r \in DOMAIN table,
           \/ Sent(w, r, "ok") /\ r \in reached'
           \/ Sent(w, r, "bad") /\ faults < faults'
    PROVE  TableInv(ids)'
  <1> USE DEF TableInv, TableTypeOK
  <1>1. /\ r \in work[w].todo
        /\ UNCHANGED <<table, undone>> /\ sent' = [sent EXCEPT ![r] = @ + 1]
    BY DEF Sent
  <1>2. /\ \A v \in Workers : v # w => work'[v] = work[v]
        /\ work'[w].todo = work[w].todo \ {r}
        /\ \/ /\ work'[w].ok = work[w].ok \union {r} /\ work'[w].bad = work[w].bad
              /\ r \in reached'
           \/ /\ work'[w].bad = work[w].bad \union {r} /\ work'[w].ok = work[w].ok
              /\ faults < faults'
    <2>1. \A v \in Workers : v # w => work'[v] = work[v]
      BY DEF Sent
    <2>2. ASSUME Sent(w, r, "ok")
          PROVE  /\ work'[w].todo = work[w].todo \ {r}
                 /\ work'[w].ok = work[w].ok \union {r} /\ work'[w].bad = work[w].bad
      BY <2>2 DEF Sent
    <2>3. ASSUME Sent(w, r, "bad")
          PROVE  /\ work'[w].todo = work[w].todo \ {r}
                 /\ work'[w].bad = work[w].bad \union {r} /\ work'[w].ok = work[w].ok
      BY <2>3 DEF Sent
    <2> QED
      BY <2>1, <2>2, <2>3
  <1>3. TableTypeOK(ids)'
    <2>1. work' \in [Workers -> [todo : SUBSET DOMAIN table, ok : SUBSET DOMAIN table,
                                 bad : SUBSET DOMAIN table]]
      BY DEF Sent
    <2> QED
      BY <1>1, <2>1
  <1>4. /\ Handled(w)' = Handled(w) \union {r}
        /\ Held(w)' = Held(w) /\ r \in Held(w)
        /\ \A v \in Workers : v # w => Held(v)' = Held(v) /\ Handled(v)' = Handled(v)
    BY <1>1, <1>2 DEF Held, Handled
  <1>5. HeldApart' /\ PartsApart' /\ HeldPending'
    <2>1. HeldApart' /\ HeldPending'
      BY <1>1, <1>4 DEF HeldApart, HeldPending, Delivered
    <2>2. r \notin Handled(w)
      BY <1>1 DEF PartsApart
    <2>3. PartsApart'
      BY <1>1, <1>2, <2>2 DEF PartsApart, Handled
    <2> QED
      BY <2>1, <2>3
  <1>6. SendsCounted(ids)'
    <2>1. ~ InHand(r) /\ InHand(r)'
      <3>1. r \notin Handled(w)
        BY <1>1 DEF PartsApart
      <3>2. \A v \in Workers : v # w => r \notin Handled(v)
        BY <1>4 DEF HeldApart, Held
      <3> QED
        BY <1>4, <3>1, <3>2 DEF InHand
    <2>2. \A q : q # r => InHand(q)' = InHand(q)
      BY <1>4 DEF InHand
    <2>3. /\ sent'[r] = sent[r] + 1 /\ \A q \in ids : q # r => sent'[q] = sent[q]
          /\ sent[r] \in Nat
      BY <1>1
    <2>4. ~ table[r].delivered
      BY <1>4 DEF HeldPending, Delivered
    <2>5. table[r].attempts \in Nat /\ undone[r] \in Nat
      BY DEF Row
    <2>6. Accounted(r)'
      BY <1>1, <2>1, <2>3, <2>4, <2>5 DEF Accounted, SendsCounted
    <2>7. ASSUME NEW q \in DOMAIN table, q # r PROVE Accounted(q)'
      BY <1>1, <2>2, <2>3, <2>7 DEF Accounted, SendsCounted
    <2> QED
      BY <1>1, <2>3, <2>6, <2>7 DEF SendsCounted
  <1>7. AttemptsAreFaults' /\ ReachedFirst'
    <2>1. table[r].attempts \in Nat /\ \A q \in DOMAIN table : table[q].attempts \in Nat
      BY DEF Row
    <2>2. AttemptsAreFaults'
      BY <1>1, <1>2, <2>1 DEF AttemptsAreFaults, Progress
    <2>3. ReachedFirst'
      BY <1>1, <1>2 DEF ReachedFirst, Delivered, Progress
    <2> QED
      BY <2>2, <2>3
  <1> QED
    BY <1>3, <1>5, <1>6, <1>7

\* A process that is idle again holds nothing; the others hold what they held.
LEMMA BackToIdle ==
    ASSUME NEW ids, TableTypeOK(ids), HeldApart, PartsApart, NEW w \in Workers,
           work' = [work EXCEPT ![w] = Idle], DOMAIN table' = DOMAIN table
    PROVE  /\ work' \in [Workers -> [todo : SUBSET DOMAIN table', ok : SUBSET DOMAIN table',
                                     bad : SUBSET DOMAIN table']]
           /\ Held(w)' = {}
           /\ \A v \in Workers : v # w =>
                 /\ work'[v] = work[v] /\ Held(v)' = Held(v)
                 /\ Held(v) \cap Held(w) = {}
           /\ HeldApart' /\ PartsApart'
           /\ \A r : InHand(r)' <=> InHand(r) /\ r \notin Handled(w)
  <1> USE DEF TableTypeOK
  <1>1. work'[w] = Idle /\ \A v \in Workers : v # w => work'[v] = work[v]
    OBVIOUS
  <1>2. /\ Held(w)' = {} /\ Handled(w)' = {}
        /\ \A v \in Workers : v # w => Held(v)' = Held(v) /\ Handled(v)' = Handled(v)
    BY <1>1 DEF Held, Handled, Idle
  <1>3. \A v \in Workers : v # w => Held(v) \cap Held(w) = {}
    BY DEF HeldApart
  <1>4. HeldApart'
    BY <1>2 DEF HeldApart
  <1>5. PartsApart'
    BY <1>1, <1>2 DEF PartsApart, Idle
  <1>6. \A r : InHand(r)' <=> InHand(r) /\ r \notin Handled(w)
    BY <1>2, <1>3 DEF InHand, Held
  <1>7. work' \in [Workers -> [todo : SUBSET DOMAIN table', ok : SUBSET DOMAIN table',
                               bad : SUBSET DOMAIN table']]
    BY DEF Idle
  <1> QED
    BY <1>1, <1>2, <1>3, <1>4, <1>5, <1>6, <1>7

LEMMA CommitStep ==
    ASSUME NEW ids, TableInv(ids), Progress, Freeze \in Nat, NEW w \in Workers, Commit(w)
    PROVE  TableInv(ids)'
  <1> USE DEF TableInv
  <1>1. /\ DOMAIN table' = DOMAIN table
        /\ \A r \in DOMAIN table :
              /\ table'[r] \in Row
              /\ table'[r].attempts =
                     IF r \in work[w].bad THEN table[r].attempts + 1 ELSE table[r].attempts
              /\ table'[r].delivered = (r \in work[w].ok \/ table[r].delivered)
    BY CommitRows
  <1>2. work' = [work EXCEPT ![w] = Idle] /\ UNCHANGED <<sent, undone>>
    BY DEF Commit
  <1>3. /\ work' \in [Workers -> [todo : SUBSET DOMAIN table', ok : SUBSET DOMAIN table',
                                  bad : SUBSET DOMAIN table']]
        /\ Held(w)' = {}
        /\ \A v \in Workers : v # w =>
              /\ work'[v] = work[v] /\ Held(v)' = Held(v)
              /\ Held(v) \cap Held(w) = {}
        /\ HeldApart' /\ PartsApart'
        /\ \A r : InHand(r)' <=> InHand(r) /\ r \notin Handled(w)
    BY <1>1, <1>2, BackToIdle
  <1>4. TableTypeOK(ids)'
    <2>1. table' \in [DOMAIN table' -> Row]
      BY <1>1 DEF Commit
    <2> QED
      BY <1>1, <1>2, <1>3, <2>1 DEF TableTypeOK
  <1>5. Delivered' = Delivered \union work[w].ok
    BY <1>1 DEF Delivered, TableTypeOK
  <1>6. HeldPending'
    BY <1>3, <1>5 DEF HeldPending, Held, Handled
  <1>t. \A r \in DOMAIN table : table[r] \in Row /\ table[r].attempts \in Nat
                                /\ sent[r] \in Nat /\ undone[r] \in Nat
    BY DEF TableTypeOK, Row
  <1>7. SendsCounted(ids)'
    <2>1. ASSUME NEW r \in DOMAIN table PROVE Accounted(r)'
      <3>1. Accounted(r)
        BY DEF SendsCounted
      <3>2. CASE r \in work[w].ok
        <4>1. InHand(r) /\ ~ InHand(r)' /\ r \notin work[w].bad /\ ~ table[r].delivered
          BY <1>3, <3>2 DEF InHand, Handled, Held, PartsApart, HeldPending, Delivered
        <4>2. table'[r].delivered /\ table'[r].attempts = table[r].attempts
          BY <1>1, <3>2, <4>1
        <4> QED
          BY <1>2, <1>t, <3>1, <4>1, <4>2 DEF Accounted
      <3>3. CASE r \in work[w].bad
        <4>1. InHand(r) /\ ~ InHand(r)' /\ r \notin work[w].ok
          BY <1>3, <3>3 DEF InHand, Handled, PartsApart
        <4>2. (table'[r].delivered <=> table[r].delivered)
              /\ table'[r].attempts = table[r].attempts + 1
          BY <1>1, <3>3, <4>1
        <4> QED
          BY <1>2, <1>t, <3>1, <4>1, <4>2 DEF Accounted
      <3>4. CASE r \notin Handled(w)
        <4>1. InHand(r)' <=> InHand(r)
          BY <1>3, <3>4
        <4>2. r \notin work[w].ok /\ r \notin work[w].bad
          BY <3>4 DEF Handled
        <4> QED
          BY <1>1, <1>2, <1>t, <3>1, <4>1, <4>2 DEF Accounted
      <3> QED
        BY <3>2, <3>3, <3>4 DEF Handled
    <2> QED
      BY <1>1, <1>2, <2>1 DEF SendsCounted
  <1>8. AttemptsAreFaults'
    <2>1. ASSUME NEW r \in DOMAIN table PROVE table'[r].attempts <= faults'
      BY <1>1, <1>t DEF AttemptsAreFaults, Progress
    <2>2. ASSUME NEW v \in Workers, NEW r \in work'[v].bad PROVE table'[r].attempts < faults'
      <3>1. v # w /\ r \in work[v].bad
        BY <1>3, <2>2 DEF Held, Handled
      <3>2. r \in DOMAIN table /\ r \notin work[w].bad
        BY <1>3, <3>1 DEF Held, Handled, TableTypeOK
      <3>3. table[r].attempts < faults
        BY <3>1 DEF AttemptsAreFaults
      <3> QED
        BY <1>1, <1>t, <3>2, <3>3 DEF Progress
    <2> QED
      BY <1>1, <2>1, <2>2 DEF AttemptsAreFaults
  <1>9. ReachedFirst'
    <2>1. ASSUME NEW v \in Workers PROVE work'[v].ok \subseteq reached'
      BY <1>3 DEF ReachedFirst, Progress, Held, Handled
    <2> QED
      BY <1>1, <1>5, <2>1 DEF ReachedFirst, Progress
  <1> QED
    BY <1>3, <1>4, <1>6, <1>7, <1>8, <1>9

LEMMA RollbackStep ==
    ASSUME NEW ids, TableInv(ids), Progress, NEW w \in Workers, RollsBack(w)
    PROVE  TableInv(ids)'
  <1> USE DEF TableInv
  <1>0. PICK flying : Rollback(w, flying)
    BY DEF RollsBack
  <1>1. /\ work' = [work EXCEPT ![w] = Idle] /\ UNCHANGED table
        /\ sent' = [r \in ids |-> sent[r] + IF r \in flying THEN 1 ELSE 0]
        /\ undone' = [r \in ids |-> undone[r] + IF r \in Handled(w) \union flying THEN 1 ELSE 0]
    BY <1>0 DEF Rollback, OnceMore, TableTypeOK
  <1>f. flying \subseteq work[w].todo /\ flying \cap Handled(w) = {} /\ flying \subseteq DOMAIN table
    BY <1>0 DEF Rollback, UnderWay, PartsApart, TableTypeOK
  <1>2. /\ work' \in [Workers -> [todo : SUBSET DOMAIN table', ok : SUBSET DOMAIN table',
                                  bad : SUBSET DOMAIN table']]
        /\ Held(w)' = {}
        /\ \A v \in Workers : v # w =>
              /\ work'[v] = work[v] /\ Held(v)' = Held(v)
              /\ Held(v) \cap Held(w) = {}
        /\ HeldApart' /\ PartsApart'
        /\ \A r : InHand(r)' <=> InHand(r) /\ r \notin Handled(w)
    BY <1>1, BackToIdle
  <1>3. TableTypeOK(ids)'
    BY <1>1, <1>2 DEF TableTypeOK
  <1>4. HeldPending'
    BY <1>1, <1>2 DEF HeldPending, Delivered
  <1>5. SendsCounted(ids)'
    <2>1. ASSUME NEW r \in DOMAIN table PROVE Accounted(r)'
      <3>1. Accounted(r) /\ sent[r] \in Nat /\ undone[r] \in Nat /\ table[r].attempts \in Nat
        BY DEF SendsCounted, TableTypeOK, Row
      <3>2. /\ sent'[r] = sent[r] + IF r \in flying THEN 1 ELSE 0
            /\ undone'[r] = undone[r] + IF r \in Handled(w) \/ r \in flying THEN 1 ELSE 0
        BY <1>1 DEF TableTypeOK
      <3>3. r \in Handled(w) => InHand(r) /\ r \notin flying
        BY <1>f DEF InHand
      <3>4. CASE r \in flying
        BY <1>1, <1>2, <3>1, <3>2, <3>3, <3>4 DEF Accounted
      <3>5. CASE r \notin flying
        BY <1>1, <1>2, <3>1, <3>2, <3>3, <3>5 DEF Accounted
      <3> QED
        BY <3>4, <3>5
    <2>2. ASSUME NEW r \in ids \ DOMAIN table PROVE sent'[r] = 0 /\ undone'[r] = 0
      <3>1. r \notin Handled(w) /\ r \notin flying
        BY <1>f DEF Handled, TableTypeOK
      <3> QED
        BY <1>1, <3>1 DEF SendsCounted
    <2> QED
      BY <1>1, <2>1, <2>2 DEF SendsCounted
  <1>6. \A v \in Workers : work'[v].bad \subseteq work[v].bad /\ work'[v].ok \subseteq work[v].ok
    BY <1>2 DEF Held, Handled
  <1>7. AttemptsAreFaults'
    <2>1. \A r \in DOMAIN table : table[r].attempts \in Nat
      BY DEF TableTypeOK, Row
    <2>2. \A v \in Workers : work[v].bad \subseteq DOMAIN table
      BY DEF TableTypeOK
    <2> QED
      BY <1>1, <1>6, <2>1, <2>2 DEF AttemptsAreFaults, Progress
  <1>8. ReachedFirst'
    BY <1>1, <1>6 DEF ReachedFirst, Delivered, Progress
  <1> QED
    BY <1>2, <1>3, <1>4, <1>5, <1>7, <1>8

\* Nothing is in hand that changes, and no row is sent or settled.
LEMMA QuietStep ==
    ASSUME NEW ids, TableInv(ids), Progress, UNCHANGED <<work, sent, undone>>,
           DOMAIN table \subseteq DOMAIN table', DOMAIN table' \subseteq ids,
           table' \in [DOMAIN table' -> Row],
           \A r \in DOMAIN table : /\ table'[r].attempts = table[r].attempts
                                   /\ table'[r].delivered = table[r].delivered,
           \A r \in DOMAIN table' \ DOMAIN table :
               table'[r].attempts = 0 /\ table'[r].delivered = FALSE
    PROVE  TableInv(ids)'
  <1> USE DEF TableInv
  <1>1. Delivered' = Delivered
    BY DEF Delivered
  <1>2. /\ \A w \in Workers : Held(w)' = Held(w) /\ Handled(w)' = Handled(w)
        /\ \A r : InHand(r)' = InHand(r)
    BY DEF Held, Handled, InHand
  <1>3. TableTypeOK(ids)'
    <2>1. work' \in [Workers -> [todo : SUBSET DOMAIN table', ok : SUBSET DOMAIN table',
                                 bad : SUBSET DOMAIN table']]
      BY DEF TableTypeOK
    <2> QED
      BY <2>1 DEF TableTypeOK
  <1>4. HeldApart' /\ PartsApart' /\ HeldPending'
    BY <1>1, <1>2 DEF HeldApart, PartsApart, HeldPending
  <1>5. SendsCounted(ids)'
    <2>1. ASSUME NEW r \in DOMAIN table PROVE Accounted(r)'
      BY <1>2 DEF SendsCounted, Accounted
    <2>2. ASSUME NEW r \in DOMAIN table' \ DOMAIN table PROVE Accounted(r)'
      <3>1. ~ InHand(r)
        BY DEF InHand, Handled, TableTypeOK
      <3> QED
        BY <1>2, <2>2, <3>1 DEF SendsCounted, Accounted
    <2> QED
      BY <2>1, <2>2 DEF SendsCounted
  <1>6. AttemptsAreFaults'
    <2>1. \A r \in DOMAIN table : table[r].attempts \in Nat
      BY DEF TableTypeOK, Row
    <2>2. \A w \in Workers : work[w].bad \subseteq DOMAIN table
      BY DEF TableTypeOK
    <2>3. ASSUME NEW r \in DOMAIN table' PROVE table'[r].attempts <= faults'
      BY <2>1 DEF AttemptsAreFaults, Progress
    <2>4. ASSUME NEW w \in Workers, NEW r \in work'[w].bad PROVE table'[r].attempts < faults'
      BY <2>1, <2>2 DEF AttemptsAreFaults, Progress
    <2> QED
      BY <2>3, <2>4 DEF AttemptsAreFaults
  <1>7. ReachedFirst'
    BY <1>1 DEF ReachedFirst, Progress
  <1> QED
    BY <1>3, <1>4, <1>5, <1>6, <1>7

LEMMA InsertStep ==
    ASSUME NEW ids, TableInv(ids), Progress, NEW more \in SUBSET ids, Insert(more)
    PROVE  TableInv(ids)'
  <1>1. NewRow \in Row /\ NewRow.attempts = 0 /\ NewRow.delivered = FALSE
    BY DEF NewRow, Row
  <1>2. /\ DOMAIN table' = DOMAIN table \union more
        /\ \A r \in DOMAIN table : table'[r] = table[r]
        /\ \A r \in DOMAIN table' \ DOMAIN table : table'[r] = NewRow
        /\ table' = [r \in DOMAIN table' |-> table'[r]]
        /\ UNCHANGED <<work, sent, undone>>
    BY DEF Insert
  <1>3. table' \in [DOMAIN table' -> Row]
    BY <1>1, <1>2 DEF TableInv, TableTypeOK
  <1>4. DOMAIN table' \subseteq ids
    BY <1>2 DEF TableInv, TableTypeOK
  <1> QED
    BY <1>1, <1>2, <1>3, <1>4, QuietStep

LEMMA ElapseStep ==
    ASSUME NEW ids, TableInv(ids), Progress, Elapse
    PROVE  TableInv(ids)'
  <1>1. ASSUME NEW r \in DOMAIN table
        PROVE  /\ table'[r] = [table[r] EXCEPT !.wait = IF @ > 0 THEN @ - 1 ELSE 0]
               /\ table[r] \in Row
    BY DEF Elapse, TableInv, TableTypeOK
  <1>2. ASSUME NEW row \in Row, NEW aged, aged = [row EXCEPT !.wait = IF @ > 0 THEN @ - 1 ELSE 0]
        PROVE  aged \in Row /\ aged.attempts = row.attempts /\ aged.delivered = row.delivered
    BY <1>2 DEF Row
  <1>3. \A r \in DOMAIN table :
            /\ table'[r] \in Row
            /\ table'[r].attempts = table[r].attempts
            /\ table'[r].delivered = table[r].delivered
    BY <1>1, <1>2
  <1>4. /\ DOMAIN table' = DOMAIN table /\ UNCHANGED <<work, sent, undone>>
        /\ table' = [r \in DOMAIN table |-> table'[r]]
    BY DEF Elapse
  <1>5. table' \in [DOMAIN table' -> Row] /\ DOMAIN table' \subseteq ids
    BY <1>3, <1>4 DEF TableInv, TableTypeOK
  <1> QED
    BY <1>3, <1>4, <1>5, QuietStep

-----------------------------------------------------------------------------
(* What a relay takes from here.                                           *)

LEMMA TableInvInit ==
    ASSUME NEW ids, NEW rows \in SUBSET ids, table = [r \in rows |-> NewRow],
           work = [w \in Workers |-> Idle], sent = [r \in ids |-> 0], undone = sent,
           reached = {}, faults \in Nat
    PROVE  TableInv(ids)
  <1>1. NewRow \in Row /\ NewRow.attempts = 0 /\ NewRow.delivered = FALSE
    BY DEF NewRow, Row
  <1>2. \A w \in Workers : /\ work[w].todo = {} /\ work[w].ok = {} /\ work[w].bad = {}
                           /\ Held(w) = {} /\ Handled(w) = {}
    BY DEF Idle, Held, Handled
  <1>3. TableTypeOK(ids)
    BY <1>1 DEF TableTypeOK, Idle
  <1>4. HeldApart /\ PartsApart /\ HeldPending
    BY <1>2 DEF HeldApart, PartsApart, HeldPending
  <1>5. SendsCounted(ids)
    BY <1>1, <1>2 DEF SendsCounted, Accounted, InHand
  <1>6. AttemptsAreFaults /\ ReachedFirst
    BY <1>1, <1>2 DEF AttemptsAreFaults, ReachedFirst, Delivered
  <1> QED
    BY <1>3, <1>4, <1>5, <1>6 DEF TableInv

LEMMA TableInvNext ==
    ASSUME NEW ids, TableInv(ids), Progress, Touch(ids), Freeze \in Nat
    PROVE  TableInv(ids)'
  <1>1. CASE UNCHANGED <<table, work, sent, undone>>
    BY <1>1, QuietStep DEF TableInv, TableTypeOK
  <1> QED
    BY <1>1, TickStep, SentStep, CommitStep, RollbackStep, InsertStep, ElapseStep DEF Touch

\* Rows are settled by a commit, after their content reached the other side, and
\* stay settled; only an insertion adds rows.
LEMMA RowsAdvance ==
    ASSUME NEW ids, TableInv(ids), Touch(ids), Freeze \in Nat
    PROVE  /\ DOMAIN table \subseteq DOMAIN table'
           /\ Delivered \subseteq Delivered' /\ Delivered' \subseteq reached
           /\ \/ DOMAIN table' = DOMAIN table
              \/ \E more \in SUBSET ids : Insert(more)
           /\ \/ Delivered' = Delivered
              \/ \E w \in Workers : Commit(w)
  <1>0. Delivered \subseteq reached
    BY DEF TableInv, ReachedFirst
  <1>1. ASSUME NEW w \in Workers, Commit(w)
        PROVE  /\ DOMAIN table' = DOMAIN table
               /\ Delivered' = Delivered \union work[w].ok /\ work[w].ok \subseteq reached
    <2>1. /\ DOMAIN table' = DOMAIN table
          /\ \A r \in DOMAIN table :
                table'[r].delivered = (r \in work[w].ok \/ table[r].delivered)
      BY <1>1, CommitRows DEF TableInv
    <2> QED
      BY <2>1 DEF Delivered, TableInv, TableTypeOK, ReachedFirst
  <1>2. ASSUME UNCHANGED table PROVE DOMAIN table' = DOMAIN table /\ Delivered' = Delivered
    BY <1>2 DEF Delivered
  <1>3. ASSUME NEW more \in SUBSET ids, Insert(more)
        PROVE  DOMAIN table \subseteq DOMAIN table' /\ Delivered' = Delivered
    BY <1>3 DEF Insert, Delivered, NewRow
  <1>4. ASSUME Elapse
        PROVE  DOMAIN table' = DOMAIN table /\ Delivered' = Delivered
    <2>1. \A r \in DOMAIN table : table'[r].delivered = table[r].delivered
      BY <1>4 DEF Elapse, TableInv, TableTypeOK, Row
    <2> QED
      BY <1>4, <2>1 DEF Elapse, Delivered
  <1>5. ASSUME NEW w \in Workers, NEW r \in DOMAIN table,
               Tick(w) \/ RollsBack(w) \/ Sent(w, r, "ok") \/ Sent(w, r, "bad")
        PROVE  UNCHANGED table
    BY <1>5 DEF Tick, RollsBack, Rollback, Sent
  <1>6. ASSUME NEW w \in Workers, Tick(w) \/ RollsBack(w)
        PROVE  UNCHANGED table
    BY <1>6 DEF Tick, RollsBack, Rollback
  <1> QED
    BY <1>0, <1>1, <1>2, <1>3, <1>4, <1>5, <1>6 DEF Touch

\* Only a commit counts an attempt.
LEMMA AttemptsStay ==
    ASSUME NEW ids, TableTypeOK(ids),
           \/ \E w \in Workers : \/ Tick(w) \/ RollsBack(w)
                                 \/ \E r, answer : Sent(w, r, answer)
           \/ Elapse
           \/ UNCHANGED table
    PROVE  /\ DOMAIN table' = DOMAIN table
           /\ \A r \in DOMAIN table : table'[r].attempts = table[r].attempts
  <1>1. CASE Elapse
    BY <1>1 DEF Elapse, TableTypeOK, Row
  <1>2. CASE ~ Elapse
    <2>1. UNCHANGED table
      BY <1>2 DEF Tick, RollsBack, Rollback, Sent
    <2> QED
      BY <2>1
  <1> QED
    BY <1>1, <1>2

\* A row is in one open transaction, or in none.
LEMMA SendsFollow ==
    ASSUME NEW ids, TableInv(ids)
    PROVE  SendsAccounted
  <1> SUFFICES ASSUME NEW r \in DOMAIN table
               PROVE  Cardinality({w \in Workers : r \in Handled(w)}) =
                          IF InHand(r) THEN 1 ELSE 0
    BY DEF SendsAccounted, TableInv, SendsCounted, Accounted
  <1>1. CASE InHand(r)
    <2>1. PICK w \in Workers : r \in Handled(w)
      BY <1>1 DEF InHand
    <2>2. {v \in Workers : r \in Handled(v)} = {w}
      BY <2>1 DEF TableInv, HeldApart, Held
    <2> QED
      BY <1>1, <2>2, FS_Singleton
  <1>2. CASE ~ InHand(r)
    <2>1. {v \in Workers : r \in Handled(v)} = {}
      BY <1>2 DEF InHand
    <2> QED
      BY <1>2, <2>1, FS_EmptySet
  <1> QED
    BY <1>1, <1>2

=============================================================================
