------------------------------ MODULE Delivery ------------------------------
(***************************************************************************)
(* What the relays promise, with no tables, ticks or retries in it: a      *)
(* record that was published is received by the other side before it is    *)
(* settled, settled once, and settled records stay settled.                *)
(***************************************************************************)

VARIABLES
    published,      \* rows the tables hold or held
    received,       \* rows whose content reached the receiver, or Redis
    settled         \* rows recorded as delivered

deliveryVars == <<published, received, settled>>

DeliveryInit == received = {} /\ settled = {}

Receive ==
    /\ received \subseteq received'
    /\ received' \subseteq published
    /\ UNCHANGED <<published, settled>>

\* Settling some rows and publishing others may be one transaction.
Settle ==
    /\ settled \subseteq settled' /\ settled' \subseteq received
    /\ published \subseteq published'
    /\ UNCHANGED received

DeliverySpec == DeliveryInit /\ [][Receive \/ Settle]_deliveryVars

=============================================================================
