--------------------------- MODULE EmissionsLedger ---------------------------
(***************************************************************************)
(* What the ingest path promises, with no requests, logs or processes in   *)
(* it: batches are offered any number of times, and each measurement of an *)
(* offered batch is counted at most once, together with the rest of its    *)
(* batch, in three places at the same instant: the measurements, the       *)
(* deltas of its site and month, and the business events.                  *)
(***************************************************************************)

CONSTANTS
    KeysOf(_),      \* the measurements of a batch
    CellOf(_)       \* the site and month a measurement belongs to

VARIABLES
    offered,        \* batches offered so far
    counted,        \* measurements counted so far
    reported,       \* the same measurements, with the cell each was added to
    announced       \* the same measurements, as business events announced them

ledgerVars == <<offered, counted, reported, announced>>

LedgerInit == counted = {} /\ reported = {} /\ announced = {}

Offer ==
    /\ offered \subseteq offered'
    /\ UNCHANGED <<counted, reported, announced>>

\* Some offered batch is counted, all of it; what was counted before stays, and
\* is not counted again.
Count ==
    /\ \E m \in offered :
          LET fresh == KeysOf(m) \ counted IN
          /\ counted' = counted \union fresh
          /\ reported' = reported \union {<<k, CellOf(k)>> : k \in fresh}
          /\ announced' = announced \union fresh
    /\ UNCHANGED offered

LedgerNext == Offer \/ Count

LedgerSpec == LedgerInit /\ [][LedgerNext]_ledgerVars

=============================================================================
