---------------------------- MODULE RelaySettings ----------------------------
(***************************************************************************)
(* The settings the three relays have in common (their env schemas have    *)
(* the same defaults), the row they keep per record, and the rest a row    *)
(* gets after a failed attempt.                                            *)
(***************************************************************************)
EXTENDS Failures, FiniteSets

CONSTANTS
    MaxAttempts,    \* failed attempts after which a row is frozen
    BackoffBase,    \* backoff after n failures: 2^n * base, at most the cap
    BackoffCap,
    Jitter,         \* bound: units the jitter may add
    Day,            \* rest of a frozen row of the outbox relay or metrics relay
    Year            \* rest of a frozen row of the system-alerts relay

ASSUME RelayAssumption ==
    /\ {MaxAttempts, BackoffBase, BackoffCap, Day, Year} \subseteq Nat \ {0}
    /\ Jitter \in Nat

Row == [attempts : Nat, wait : Nat, delivered : BOOLEAN]
NewRow == [attempts |-> 0, wait |-> 0, delivered |-> FALSE]

\* How long a row rests after its n-th failed attempt.
Rest(n, freeze, j) ==
    LET b == BackoffBase * 2 ^ n IN
    IF n >= MaxAttempts THEN freeze
                        ELSE j + IF b \in 0..BackoffCap THEN b ELSE BackoffCap

\* The row after handleFailure.
Failed(row, freeze, j) ==
    [row EXCEPT !.attempts = @ + 1, !.wait = Rest(row.attempts + 1, freeze, j)]

Ended(row) == row.attempts + 1 >= MaxAttempts

=============================================================================
