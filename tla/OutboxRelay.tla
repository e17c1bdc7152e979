----------------------------- MODULE OutboxRelay -----------------------------
(***************************************************************************)
(* apps/outbox-relay: business events of the table `outbox` are POSTed to  *)
(* /alerts/business.  An event whose attempts are used up leaves a row in  *)
(* `system_alerts` and rests for a day.                                    *)
(***************************************************************************)
EXTENDS AlertReceiver, RelaySettings

CONSTANTS
    OutboxWorkers,
    EventOf,        \* the payload of an outbox row
    OutboxBatch

ASSUME EventAssumption == EventOf \in [OutboxIds -> Envelope]

VARIABLES
    outbox, outboxWork, outboxSent, outboxUndone,
    mail,           \* POSTs whose answer was lost, which may still arrive
    heard           \* outbox rows that reached the receiver (history)

outboxVars == <<outbox, outboxWork, outboxSent, outboxUndone>>

Outbox == INSTANCE RelayTable WITH
    table <- outbox, work <- outboxWork, sent <- outboxSent, undone <- outboxUndone,
    Workers <- OutboxWorkers, BatchSize <- OutboxBatch, Freeze <- Day

\* The alerts that handleFailure inserts: each names its row and the attempts.
OutboxAlerts(w) ==
    {[from |-> "outbox", row |-> r, attempts |-> outbox[r].attempts + 1] :
        r \in Outbox!Exhausted(w)}

OutboxTick(w) ==
    /\ Outbox!Tick(w)
    /\ UNCHANGED <<receiverVars, mail, heard, faults>>

\* The receiver answers 200.
DeliverEvent(w, r) ==
    /\ Outbox!Sent(w, r, "ok")
    /\ HandleBusiness(r, EventOf[r])
    /\ heard' = heard \union {r}
    /\ UNCHANGED <<mail, faults>>

\* Mutant of DeliverEventFails: the status of the answer is not looked at.
DeliverEventAnyway(w, r) ==
    /\ Fault("post")
    /\ Outbox!Sent(w, r, "ok")
    /\ mail' = mail \union {r}
    /\ UNCHANGED <<receiverVars, heard>>

\* The connection fails, the receiver answers 5xx or ten seconds pass: whether
\* the POST arrives, before or after the relay gives it up, is open.
DeliverEventFails(w, r) ==
    /\ Fault("post")
    /\ Outbox!Sent(w, r, "bad")
    /\ mail' = mail \union {r}
    /\ UNCHANGED <<receiverVars, heard>>

MailArrives(r) ==
    /\ r \in mail
    /\ mail' = mail \ {r}
    /\ HandleBusiness(r, EventOf[r])
    /\ heard' = heard \union {r}
    /\ UNCHANGED <<outboxVars, faults>>

OutboxCommit(w) ==
    /\ Outbox!Commit(w)
    /\ UNCHANGED <<receiverVars, mail, heard, faults>>

\* The POST that was under way may still arrive, the one of another replica beside
\* it.
OutboxRollback(w) ==
    /\ \E kind \in {"db", "crash"} : Fault(kind)
    /\ \E flying \in Outbox!UnderWay(w) :
          /\ Outbox!Rollback(w, flying)
          /\ mail' = mail \union flying
    /\ UNCHANGED <<receiverVars, heard>>

=============================================================================
