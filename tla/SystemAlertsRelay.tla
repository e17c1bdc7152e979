-------------------------- MODULE SystemAlertsRelay --------------------------
(***************************************************************************)
(* apps/system-alerts: rows of the table `system_alerts`, which the        *)
(* consumer and the other two relays insert, are POSTed to /alerts/system. *)
(* An alert whose attempts are used up rests for a year and leaves no      *)
(* further alert.                                                          *)
(***************************************************************************)
EXTENDS AlertReceiver, RelaySettings

CONSTANTS
    AlertWorkers,
    AlertBatch

VARIABLES
    systemAlerts, alertWork, alertSent, alertUndone,
    pages           \* POSTs whose answer was lost, which may still arrive

alertVars == <<systemAlerts, alertWork, alertSent, alertUndone>>

Alerts == INSTANCE RelayTable WITH
    table <- systemAlerts, work <- alertWork, sent <- alertSent, undone <- alertUndone,
    Workers <- AlertWorkers, BatchSize <- AlertBatch, Freeze <- Year

AlertTick(w) ==
    /\ Alerts!Tick(w)
    /\ UNCHANGED <<receiverVars, pages, faults>>

DeliverAlert(w, a) ==
    /\ Alerts!Sent(w, a, "ok")
    /\ HandleSystem(a)
    /\ UNCHANGED <<pages, faults>>

DeliverAlertFails(w, a) ==
    /\ Fault("post")
    /\ Alerts!Sent(w, a, "bad")
    /\ pages' = pages \union {a}
    /\ UNCHANGED receiverVars

PageArrives(a) ==
    /\ a \in pages
    /\ pages' = pages \ {a}
    /\ HandleSystem(a)
    /\ UNCHANGED <<alertVars, faults>>

AlertCommit(w) ==
    /\ Alerts!Commit(w)
    /\ UNCHANGED <<receiverVars, pages, faults>>

AlertRollback(w) ==
    /\ \E kind \in {"db", "crash"} : Fault(kind)
    /\ \E flying \in Alerts!UnderWay(w) :
          /\ Alerts!Rollback(w, flying)
          /\ pages' = pages \union flying
    /\ UNCHANGED receiverVars

=============================================================================
