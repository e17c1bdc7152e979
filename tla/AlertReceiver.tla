---------------------------- MODULE AlertReceiver ----------------------------
(***************************************************************************)
(* The alerting service (apps/alerting): POST /alerts/business drops       *)
(* events that counted nothing and events it remembers, POST /alerts/system*)
(* raises every alert.  What it remembers is a bounded set in memory.      *)
(***************************************************************************)
EXTENDS Failures, Sequences

CONSTANTS
    OutboxIds,      \* the outbox_id an event carries: its row in the outbox
    BatchIds,       \* the batch_id of a business event; event_type has one value
    MaxKeys         \* DedupStore.maxSize

ASSUME ReceiverAssumption == MaxKeys \in Nat \ {0}

VARIABLES
    keys,           \* DedupStore.keys, oldest first
    raised,         \* per batch: times an alert was raised (history)
    forgotten,      \* per batch: times its key was evicted or lost (history)
    logged,         \* lines handleBusiness logged about events that counted (history)
    paged           \* system alerts raised (history)

receiverVars == <<keys, raised, forgotten, logged, paged>>

\* AlertEnvelopeBusinessSchema, as far as the receiver looks at it.
Envelope == [batch : BatchIds, inserted : Nat]

\* A line names the event and its batch_id; `memory` tells which of the receiver's
\* successive memories of the batch it falls into.
Line == [event : OutboxIds, batch : BatchIds, memory : Nat, says : {"delivered", "duplicate"}]

ReceiverTypeOK ==
    /\ keys \in Seq(BatchIds) /\ Len(keys) <= MaxKeys
    /\ raised \in [BatchIds -> Nat]
    /\ forgotten \in [BatchIds -> Nat]
    /\ logged \subseteq Line

ReceiverInit ==
    /\ keys = <<>>
    /\ raised = [b \in BatchIds |-> 0]
    /\ forgotten = [b \in BatchIds |-> 0]
    /\ logged = {}
    /\ paged = {}

Remembered(b) == \E i \in DOMAIN keys : keys[i] = b

\* The oldest tenth, rounded up.
EvictCount == (MaxKeys + 9) \div 10

\* Mutant of AddKey: nothing is evicted.
AddKeyUnbounded(b) == keys' = Append(keys, b) /\ UNCHANGED forgotten

\* DedupStore.add of a key that is not there: at the cap the oldest go first.
AddKey(b) ==
    LET drop == IF Len(keys) >= MaxKeys THEN EvictCount ELSE 0
        gone == {keys[i] : i \in 1..drop}
    IN  /\ keys' = Append(SubSeq(keys, drop + 1, Len(keys)), b)
        /\ forgotten' = [c \in BatchIds |-> forgotten[c] + IF c \in gone THEN 1 ELSE 0]

LineOf(r, e, says) ==
    [event |-> r, batch |-> e.batch, memory |-> forgotten[e.batch], says |-> says]

Suppress(r, e) ==
    /\ logged' = logged \union {LineOf(r, e, "duplicate")}
    /\ UNCHANGED <<keys, raised, forgotten>>

Raise(r, e) ==
    /\ raised' = [raised EXCEPT ![e.batch] = @ + 1]
    /\ logged' = logged \union {LineOf(r, e, "delivered")}

\* Mutant of HandleBusiness: the key is added before the events that counted
\* nothing are dropped.
HandleBusinessKeyFirst(r, e) ==
    /\ \/ e.inserted = 0 /\ Remembered(e.batch) /\ UNCHANGED <<keys, raised, forgotten, logged>>
       \/ e.inserted = 0 /\ ~ Remembered(e.batch) /\ AddKey(e.batch) /\ UNCHANGED <<raised, logged>>
       \/ e.inserted > 0 /\ Remembered(e.batch) /\ Suppress(r, e)
       \/ e.inserted > 0 /\ ~ Remembered(e.batch) /\ AddKey(e.batch) /\ Raise(r, e)
    /\ UNCHANGED paged

\* Mutant of HandleBusiness: what add returns is not looked at.
HandleBusinessAgain(r, e) ==
    /\ \/ e.inserted = 0 /\ UNCHANGED <<keys, raised, forgotten, logged>>
       \/ /\ e.inserted > 0
          /\ Raise(r, e)
          /\ IF Remembered(e.batch) THEN UNCHANGED <<keys, forgotten>> ELSE AddKey(e.batch)
    /\ UNCHANGED paged

\* An event that counted nothing is dropped before its key is looked at.  Every
\* outcome is answered 200.
HandleBusiness(r, e) ==
    /\ \/ e.inserted = 0 /\ UNCHANGED <<keys, raised, forgotten, logged>>
       \/ e.inserted > 0 /\ Remembered(e.batch) /\ Suppress(r, e)
       \/ e.inserted > 0 /\ ~ Remembered(e.batch) /\ AddKey(e.batch) /\ Raise(r, e)
    /\ UNCHANGED paged

HandleSystem(a) ==
    /\ paged' = paged \union {a}
    /\ UNCHANGED <<keys, raised, forgotten, logged>>

\* The process restarts with an empty store.
RestartReceiver ==
    /\ Fault("receiver")
    /\ keys' = <<>>
    /\ forgotten' = [b \in BatchIds |-> forgotten[b] + IF Remembered(b) THEN 1 ELSE 0]
    /\ UNCHANGED <<raised, logged, paged>>

-----------------------------------------------------------------------------

\* A batch is announced again only after its key was forgotten, and while it is
\* remembered it was announced.
RaisedOnce ==
    \A b \in BatchIds :
        /\ raised[b] <= 1 + forgotten[b]
        /\ Remembered(b) => raised[b] = 1 + forgotten[b]

=============================================================================
