------------------------------ MODULE MCRelays ------------------------------
(***************************************************************************)
(* Relays on a small instance: a batch, its replay, a second event that counted *)
(* under its batch_id, and another batch; the receiver remembers one key.  *)
(***************************************************************************)
EXTENDS Relays

CONSTANTS b1, b2, e1, e2, e3, e4, f1

MCEventOf == [r \in OutboxIds |->
    CASE r = e1 -> [batch |-> b1, inserted |-> 2]
      [] r = e2 -> [batch |-> b1, inserted |-> 0]
      [] r = e3 -> [batch |-> b2, inserted |-> 1]
      [] r = e4 -> [batch |-> b1, inserted |-> 1]]

MCConsumerAlerts == {[from |-> "consumer", row |-> f1, attempts |-> 0]}

=============================================================================
