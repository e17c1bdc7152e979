----------------------------- MODULE RelayTable -----------------------------
(***************************************************************************)
(* A table of pending rows polled by a relay.  The three relay services    *)
(* (apps/outbox-relay, apps/metrics-relay, apps/system-alerts) run the     *)
(* same loop over a table each: a tick opens a transaction, locks some due *)
(* rows with FOR UPDATE SKIP LOCKED, works on them one after the other and *)
(* commits what became of all of them at once.                             *)
(*                                                                         *)
(* Time is counted down per row, in units long beside a transaction: a row *)
(* is due when its `wait` (available_at - now()) has run out.  Rows due at *)
(* the same time are taken in any order.                                   *)
(***************************************************************************)
EXTENDS RelaySettings

CONSTANTS
    Workers,        \* processes of this service (any number of replicas)
    BatchSize,      \* rows a tick locks
    Freeze          \* how long a row rests when its attempts are used up

VARIABLES
    table,          \* the rows, by id
    work,           \* per process: the open transaction, Idle outside one
    sent,           \* per row: times it was sent (history)
    undone          \* per row: times it was sent in vain, rolled back (history)

\* Rows still to do, rows done, and rows whose attempt failed.
Idle == [todo |-> {}, ok |-> {}, bad |-> {}]

Handled(w) == work[w].ok \union work[w].bad
Held(w) == work[w].todo \union Handled(w)
Locked == UNION {Held(w) : w \in Workers}

TableTypeOK(ids) ==
    /\ DOMAIN table \subseteq ids
    /\ table \in [DOMAIN table -> Row]
    /\ work \in [Workers -> [todo : SUBSET DOMAIN table,
                             ok : SUBSET DOMAIN table,
                             bad : SUBSET DOMAIN table]]
    /\ sent \in [ids -> Nat]
    /\ undone \in [ids -> Nat]

-----------------------------------------------------------------------------

\* Mutant of Due: an exhausted row is given up.
DueUntilExhausted(r) ==
    ~ table[r].delivered /\ table[r].wait = 0 /\ table[r].attempts < MaxAttempts

Due(r) == ~ table[r].delivered /\ table[r].wait = 0

\* Mutant of Free: FOR UPDATE SKIP LOCKED is left out of the SELECT.
FreeUnlocked == {r \in DOMAIN table : Due(r)}

\* What SELECT ... FOR UPDATE SKIP LOCKED can return.
Free == {r \in DOMAIN table : Due(r)} \ Locked

\* Rows that the commit of w's transaction freezes.
Exhausted(w) == {r \in work[w].bad : Ended(table[r])}

-----------------------------------------------------------------------------
(* The steps of a tick.  `running` keeps a process to one tick at a time.  *)

Tick(w) ==
    /\ work[w] = Idle
    /\ \E batch \in SUBSET Free :
          /\ batch # {}
          /\ Cardinality(batch) <= BatchSize
          /\ Cardinality(batch) < BatchSize => batch = Free
          /\ work' = [work EXCEPT ![w].todo = batch]
    /\ UNCHANGED <<table, sent, undone>>

\* One row was sent; the answer was good, or it failed or never came.
Sent(w, r, answer) ==
    /\ r \in work[w].todo
    /\ work' = [work EXCEPT ![w].todo = @ \ {r}, ![w][answer] = @ \union {r}]
    /\ sent' = [sent EXCEPT ![r] = @ + 1]
    /\ UNCHANGED <<table, undone>>

Complete(w) == work[w].todo = {} /\ work[w] # Idle

\* COMMIT.  `now()` is the same for the whole transaction; jitter is per row.
CommittedRow(w, r, jitter) ==
    IF r \in work[w].ok THEN [table[r] EXCEPT !.delivered = TRUE]
    ELSE IF r \in work[w].bad THEN Failed(table[r], Freeze, jitter[r])
    ELSE table[r]

Commit(w) ==
    /\ Complete(w)
    /\ \E jitter \in [work[w].bad -> 0..Jitter] :
          table' = [r \in DOMAIN table |-> CommittedRow(w, r, jitter)]
    /\ work' = [work EXCEPT ![w] = Idle]
    /\ UNCHANGED <<sent, undone>>

\* What may be on its way out at any moment of a tick: nothing, or the row whose
\* request has no answer yet.
UnderWay(w) == {{}} \union {{r} : r \in work[w].todo}

\* The counts of some rows, one higher.
OnceMore(counts, rows) == [r \in DOMAIN counts |-> counts[r] + IF r \in rows THEN 1 ELSE 0]

\* A statement or the COMMIT fails, the session is lost or the process dies: nothing
\* of the tick is written, whatever was sent, and its locks are gone at once, also
\* that of a row in flight.
Rollback(w, flying) ==
    /\ work[w] # Idle
    /\ flying \in UnderWay(w)
    /\ work' = [work EXCEPT ![w] = Idle]
    /\ sent' = OnceMore(sent, flying)
    /\ undone' = OnceMore(undone, Handled(w) \union flying)
    /\ UNCHANGED table

\* Rows enter the table by another service's commit.
Insert(more) ==
    /\ table' = [r \in DOMAIN table \union more |->
                    IF r \in DOMAIN table THEN table[r] ELSE NewRow]
    /\ UNCHANGED <<work, sent, undone>>

\* One unit of time goes by.
Resting == {r \in DOMAIN table : table[r].wait > 0}
Elapse ==
    /\ \A w \in Workers : work[w] = Idle
    /\ table' = [r \in DOMAIN table |->
                    [table[r] EXCEPT !.wait = IF @ > 0 THEN @ - 1 ELSE 0]]
    /\ UNCHANGED <<work, sent, undone>>

-----------------------------------------------------------------------------

\* Every time a row was sent is one of: an attempt its row counts, the delivery
\* its row records, a send that a rollback undid, or one of an open transaction.
SendsAccounted ==
    \A r \in DOMAIN table :
        sent[r] = table[r].attempts + undone[r]
                  + (IF table[r].delivered THEN 1 ELSE 0)
                  + Cardinality({w \in Workers : r \in Handled(w)})

=============================================================================
